---- MODULE Spec2Model ----
(***************************************************************************)
(* Model of the topology and diagnostic engine of the fiber ring network   *)
(* (Beta_05/src/model/network_model.py, Beta_05/src/constants.py).         *)
(*                                                                         *)
(* The physical graph G is kept as the node list and the edge list in the  *)
(* order G.nodes / G.edges iterate them; the logical graph DG is kept as   *)
(* its adjacency map (successor lists in insertion order).                 *)
(***************************************************************************)
EXTENDS Integers, Sequences, FiniteSets, TLC

VARIABLES
    G_nodes,            \* self.G nodes, in insertion order: [id, type, circuit]
    G_edges,            \* self.G edges, in G.edges order: [source, target, id, circuit, fibers]
    DG_cache,           \* self._DG_cache: <<>> is None, <<dg>> a built graph
    cache_valid,        \* self._cache_valid
    last_cache_time,    \* self._last_cache_time
    now,                \* time.time()
    configurations,     \* storage table configurations of the active plant: name -> data
    fiber_status_log,   \* storage table fiber_status_log, oldest first
    ret,                \* what the last call returned (and observed)
    storage,            \* self.storage: TRUE a ConfigStorage, FALSE None
    plants,             \* storage tables of the plants that are not active: id -> name -> data
    active_plant_id,    \* self.active_plant_id
    captured,           \* the result of _prepare_graph_data_for_save a caller holds, <<>> none
    graph_lock,         \* self.graph_lock: the thread that holds it, 0 when free
    pc,                 \* the step each thread is at
    search              \* a call of _has_path_limited_iterative: its arguments and locals

\* the storage and the plant it is used for
storage_vars == <<storage, plants, active_plant_id>>

\* the lock of the physical graph and the threads that take it
thread_vars == <<graph_lock, pc>>

vars == <<G_nodes, G_edges, DG_cache, cache_valid, last_cache_time, now,
          configurations, fiber_status_log, ret, storage_vars, captured, thread_vars,
          search>>

-----------------------------------------------------------------------------
(* constants.py *)

DEFAULT_CIRCUITOS ==
    [C1 |-> <<"CT21", "CT22">>,
     C2 |-> <<"CT12", "CT19", "CT20">>,
     C3 |-> <<"CT16", "CT17", "CT18">>,
     C4 |-> <<"CT13", "CT14", "CT15">>,
     C5 |-> <<"CT07", "CT10", "CT11">>,
     C6 |-> <<"CT04", "CT05", "CT06">>,
     C7 |-> <<"CT01", "CT02", "CT03">>,
     C8 |-> <<"CT09", "CT08">>]

\* the keys of DEFAULT_CIRCUITOS in dict (insertion) order
CIRCUIT_IDS == <<"C1", "C2", "C3", "C4", "C5", "C6", "C7", "C8">>

DEFAULT_RING_ORDER == <<"C1", "C2", "C3", "C4", "C5", "C6", "C7", "C8">>

DEFAULT_FIBRAS_COMMS_IDA == <<1, 2>>

DEFAULT_FIBRAS_COMMS_VUELTA == <<3, 4>>

DEFAULT_FIBRAS_RESERVA == <<5, 6, 7, 8, 9, 10, 11, 12>>

DEFAULT_FIBRAS_CCTV == <<13, 14, 15, 16>>

DEFAULT_TOTAL_FIBRAS == 16

CACHE_EXPIRATION_TIME == 10

MAX_DEPTH == 30

-----------------------------------------------------------------------------
(* Bounds of the model *)

\* update_fiber_status is explored while the audit log holds fewer events
MaxLog == 2

\* the clock is advanced at most this many times
MaxTicks == 3

-----------------------------------------------------------------------------
(* Python helpers *)

\* str(n) for the strand numbers the model uses
str(n) == <<"1", "2", "3", "4", "5", "6", "7", "8", "9", "10",
            "11", "12", "13", "14", "15", "16", "17">>[n]

\* circuitos.get(c, [])
circuitos_get(c) == IF c \in DOMAIN DEFAULT_CIRCUITOS THEN DEFAULT_CIRCUITOS[c] ELSE <<>>

Range(s) == {s[i] : i \in DOMAIN s}

\* f"{u}-{v}"
SegName(u, v) == u \o "-" \o v

(* TLC evaluates an operator's argument where it is first used, which for *)
(* an accumulator of a recursive operator is at the end of the recursion   *)
(* and nested as deep as the recursion is long. A loop tests Evaluated of  *)
(* its accumulator so that each round is evaluated before the next.        *)
Evaluated(v) == v = v

\* d.get(k): the value, or None
dict_get(d, k) == IF k \in DOMAIN d THEN d[k] ELSE "None"

(* A value of the 'fibers' attribute of an edge: a dict of strand states   *)
(* (kind "dict", the dict in map), a JSON list (kind "list"), or no        *)
(* 'fibers' key at all (kind "absent").                                    *)
FibersDict(m) == [kind |-> "dict", map |-> m]

\* fibras_ida + fibras_vuelta: the strands that carry the traffic of a segment
CommsFibers == Range(DEFAULT_FIBRAS_COMMS_IDA) \cup Range(DEFAULT_FIBRAS_COMMS_VUELTA)

\* _get_initial_fiber_status
get_initial_fiber_status ==
    FibersDict([k \in {str(i) : i \in 1..DEFAULT_TOTAL_FIBRAS} |-> "ok"])

-----------------------------------------------------------------------------
(* The physical graph (networkx.Graph) *)

NodeIds(nodes) == {nodes[i].id : i \in DOMAIN nodes}

\* G.has_node(n)
G_has_node(n) == n \in NodeIds(G_nodes)

NodePos(nodes, n) == CHOOSE i \in DOMAIN nodes : nodes[i].id = n

(* G.edges(data=True) of a graph whose nodes were added in the order of    *)
(* `nodes` and whose edges were added in the order of `inserted`: node by  *)
(* node, the edges to nodes not seen before, each reported from the node   *)
(* that comes first.                                                       *)
G_edges_view(nodes, inserted) ==
    LET first(e) == IF NodePos(nodes, e.source) <= NodePos(nodes, e.target)
                    THEN NodePos(nodes, e.source) ELSE NodePos(nodes, e.target)
        oriented(e) == IF NodePos(nodes, e.source) <= NodePos(nodes, e.target)
                       THEN e
                       ELSE [e EXCEPT !.source = e.target, !.target = e.source]
        RECURSIVE walk(_)
        walk(i) ==
            IF i > Len(nodes) THEN <<>>
            ELSE LET from_i(e) == first(e) = i
                     mine == SelectSeq(inserted, from_i)
                 IN  [k \in 1..Len(mine) |-> oriented(mine[k])] \o walk(i + 1)
    IN  walk(1)

\* _init_graph, default branch: the nodes, SET first, then the CTs circuit by circuit
DefaultNodes ==
    LET RECURSIVE cts(_)
        cts(i) ==
            IF i > Len(CIRCUIT_IDS) THEN <<>>
            ELSE LET c  == CIRCUIT_IDS[i]
                     l  == DEFAULT_CIRCUITOS[c]
                 IN  [k \in 1..Len(l) |-> [id |-> l[k], type |-> "ct", circuit |-> c]]
                     \o cts(i + 1)
    IN  <<[id |-> "SET", type |-> "set", circuit |-> "None"]>> \o cts(1)

\* _init_graph, default branch: the edges in the order they are added
DefaultEdgesInserted ==
    LET seg(u, v, c) == [source |-> u, target |-> v, id |-> SegName(u, v),
                         circuit |-> c, fibers |-> get_initial_fiber_status]
        RECURSIVE per(_)
        per(i) ==
            IF i > Len(CIRCUIT_IDS) THEN <<>>
            ELSE LET c == CIRCUIT_IDS[i]
                     l == DEFAULT_CIRCUITOS[c]
                 IN  (IF Len(l) = 0 THEN <<>>
                      ELSE <<seg("SET", l[1], c)>>
                           \o [k \in 1..(Len(l) - 1) |-> seg(l[k], l[k + 1], c)])
                     \o per(i + 1)
    IN  per(1)

DefaultEdges == G_edges_view(DefaultNodes, DefaultEdgesInserted)

-----------------------------------------------------------------------------
(* The logical graph (networkx.DiGraph): node -> successors, each          *)
(* [to, type], in the order the edges were added.                          *)

\* DG.has_node(n)
DG_has_node(dg, n) == n \in DOMAIN dg

\* list(graph.successors(node)); raises for a node the graph does not hold
DG_successors(dg, n) == [k \in 1..Len(dg[n]) |-> dg[n][k].to]

DG_add_node(dg, n) ==
    IF n \in DOMAIN dg THEN dg
    ELSE [m \in (DOMAIN dg) \cup {n} |-> IF m \in DOMAIN dg THEN dg[m] ELSE <<>>]

\* DG.add_edge(u, v, type=t): a new successor of u, or new attributes of the edge
DG_add_edge(dg, u, v, t) ==
    LET d == DG_add_node(DG_add_node(dg, u), v)
    IN  IF \E k \in DOMAIN d[u] : d[u][k].to = v
        THEN [d EXCEPT ![u] = [k \in DOMAIN d[u] |->
                                   IF d[u][k].to = v THEN [to |-> v, type |-> t]
                                   ELSE d[u][k]]]
        ELSE [d EXCEPT ![u] = Append(@, [to |-> v, type |-> t])]

DG_edge_set(dg) ==
    UNION {{<<n, dg[n][k].to>> : k \in 1..Len(dg[n])} : n \in DOMAIN dg}

(* _has_path_limited_iterative: depth-first with an explicit stack; a node *)
(* is marked visited when pushed; a node at depth max_depth is not         *)
(* expanded; an exception while fetching successors ends the search with   *)
(* False.                                                                  *)
(* How the call ends: "True" or "False" by a return of the loop, "except"  *)
(* by the return False of the except clause (61-63).                       *)
has_path_search(graph, source, target, max_depth) ==
    LET RECURSIVE loop(_, _)
        loop(stack, visited) ==
            IF stack = <<>> THEN "False"
            ELSE LET top   == stack[Len(stack)]
                     rest  == SubSeq(stack, 1, Len(stack) - 1)
                     node  == top[1]
                     depth == top[2]
                 IN  IF node = target THEN "True"
                     ELSE IF depth >= max_depth THEN loop(rest, visited)
                     ELSE IF ~DG_has_node(graph, node) THEN "except"
                     ELSE \* the for loop over the successors, which are distinct
                          LET fresh  == SelectSeq(DG_successors(graph, node),
                                                  LAMBDA n : n \notin visited)
                              pushed == rest \o [k \in 1..Len(fresh) |->
                                                    <<fresh[k], depth + 1>>]
                              marked == visited \cup Range(fresh)
                          IN  IF Evaluated(pushed) /\ Evaluated(marked)
                              THEN loop(pushed, marked) ELSE "False"
    IN  IF source = target THEN "True"
        ELSE loop(<<<<source, 0>>>>, {source})

\* the value _has_path_limited_iterative returns
has_path_limited_iterative(graph, source, target, max_depth) ==
    has_path_search(graph, source, target, max_depth) = "True"

(* _has_path_limited_iterative one statement group at a time. search holds *)
(* the arguments, the locals stack and visited, where the call is at, and  *)
(* what it did: how often each node was pushed and the depths it expanded. *)

\* no call in progress
NoSearch ==
    [graph |-> <<>>, source |-> 0, target |-> 0, at |-> "idle", stack |-> <<>>,
     visited |-> {}, pushes |-> <<>>, expanded |-> {}]

\* (mutant) the for loop pushes every successor, visited or not
fresh_successors_NoVisited(graph, node, visited) == DG_successors(graph, node)

\* the successors the for loop pushes: those not in visited
fresh_successors(graph, node, visited) ==
    SelectSeq(DG_successors(graph, node), LAMBDA n : n \notin visited)

\* lines 45-48: the source is the target, or the source is pushed at depth 0
search_enter ==
    /\ search.at = "called"
    /\ search' = IF search.source = search.target
                 THEN [search EXCEPT !.at = "True"]
                 ELSE [search EXCEPT !.at = "while",
                                     !.visited = {search.source},
                                     !.stack = <<<<search.source, 0>>>>,
                                     !.pushes = [n \in {search.source} |-> 1]]
    /\ UNCHANGED <<G_nodes, G_edges, DG_cache, cache_valid, last_cache_time, now,
                   configurations, fiber_status_log, ret, storage_vars, captured,
                   thread_vars>>

\* lines 49-64: one pass of the while loop, or its end
search_iterate(max_depth) ==
    /\ search.at = "while"
    /\ search' =
         IF search.stack = <<>> THEN [search EXCEPT !.at = "False"]
         ELSE LET top   == search.stack[Len(search.stack)]
                  rest  == SubSeq(search.stack, 1, Len(search.stack) - 1)
                  node  == top[1]
                  depth == top[2]
              IN  IF node = search.target
                  THEN [search EXCEPT !.at = "True", !.stack = rest]
                  ELSE IF depth >= max_depth
                  THEN [search EXCEPT !.stack = rest]
                  ELSE IF ~DG_has_node(search.graph, node)
                  THEN [search EXCEPT !.at = "False", !.stack = rest]
                  ELSE LET fresh == fresh_successors(search.graph, node, search.visited)
                           count(n) == Cardinality({k \in DOMAIN fresh : fresh[k] = n})
                       IN  [search EXCEPT
                               !.stack = rest \o [k \in 1..Len(fresh) |->
                                                     <<fresh[k], depth + 1>>],
                               !.visited = @ \cup Range(fresh),
                               !.pushes = [n \in DOMAIN @ \cup Range(fresh) |->
                                              (IF n \in DOMAIN search.pushes
                                               THEN search.pushes[n] ELSE 0)
                                              + count(n)],
                               !.expanded = @ \cup {depth}]
    /\ UNCHANGED <<G_nodes, G_edges, DG_cache, cache_valid, last_cache_time, now,
                   configurations, fiber_status_log, ret, storage_vars, captured,
                   thread_vars>>

\* _check_segment_path_direction raises: fibers_status is truthy and has no .get
segment_path_raises(fibers_status) == fibers_status.kind = "list"

\* (mutant) any 'ok' strand of the segment carries the direction
check_segment_path_direction_AnyStrand(fibers_status, direction_fibers) ==
    IF fibers_status.kind # "dict" \/ DOMAIN fibers_status.map = {}
    THEN FALSE
    ELSE \E k \in DOMAIN fibers_status.map : fibers_status.map[k] = "ok"

\* _check_segment_path_direction: some strand of the direction is 'ok'
check_segment_path_direction(fibers_status, direction_fibers) ==
    IF fibers_status.kind # "dict" \/ DOMAIN fibers_status.map = {}
    THEN FALSE
    ELSE \E k \in DOMAIN direction_fibers :
            dict_get(fibers_status.map, str(direction_fibers[k])) = "ok"

\* (mutant) every pair of the ring order is patched, path or no path
add_ring_connections_Always(DG0) ==
    LET RECURSIVE pairs(_, _)
        pairs(DG, i) ==
            IF i >= Len(DEFAULT_RING_ORDER) THEN DG
            ELSE LET cts_actual    == circuitos_get(DEFAULT_RING_ORDER[i + 1])
                     cts_siguiente == circuitos_get(
                         DEFAULT_RING_ORDER[((i + 1) % Len(DEFAULT_RING_ORDER)) + 1])
                     patched == DG_add_edge(DG, cts_actual[Len(cts_actual)],
                                            cts_siguiente[1], "set_patch")
                 IN  IF Evaluated(patched) THEN pairs(patched, i + 1) ELSE DG
    IN  pairs(DG0, 0)

\* (mutant) no pair of the ring order is patched
add_ring_connections_Never(DG0) == DG0

\* (mutant) the last circuit is not paired with the first
add_ring_connections_NoWrap(DG0) ==
    LET RECURSIVE pairs(_, _)
        pairs(DG, i) ==
            IF i >= Len(DEFAULT_RING_ORDER) - 1 THEN DG
            ELSE LET cts_actual    == circuitos_get(DEFAULT_RING_ORDER[i + 1])
                     cts_siguiente == circuitos_get(DEFAULT_RING_ORDER[i + 2])
                     nodo_final    == cts_actual[Len(cts_actual)]
                     nodo_inicial  == cts_siguiente[1]
                 IN  IF has_path_limited_iterative(DG, nodo_final, nodo_inicial, MAX_DEPTH)
                     THEN pairs(DG, i + 1)
                     ELSE LET patched == DG_add_edge(DG, nodo_final, nodo_inicial,
                                                     "set_patch")
                          IN  IF Evaluated(patched) THEN pairs(patched, i + 1) ELSE DG
    IN  pairs(DG0, 0)

\* _add_ring_connections_py
add_ring_connections(DG0) ==
    LET ring_order   == DEFAULT_RING_ORDER
        num_circuits == Len(ring_order)
        RECURSIVE pairs(_, _)
        pairs(DG, i) ==
            IF i >= num_circuits THEN DG
            ELSE LET circuit_actual    == ring_order[i + 1]
                     circuit_siguiente == ring_order[((i + 1) % num_circuits) + 1]
                     cts_actual        == circuitos_get(circuit_actual)
                     cts_siguiente     == circuitos_get(circuit_siguiente)
                 IN  IF cts_actual = <<>> \/ cts_siguiente = <<>>
                     THEN pairs(DG, i + 1)
                     ELSE LET nodo_final   == cts_actual[Len(cts_actual)]
                              nodo_inicial == cts_siguiente[1]
                              path_exists  == has_path_limited_iterative(
                                                DG, nodo_final, nodo_inicial, MAX_DEPTH)
                          IN  IF /\ DG_has_node(DG, nodo_final)
                                 /\ DG_has_node(DG, "SET")
                                 /\ DG_has_node(DG, nodo_inicial)
                                 /\ ~path_exists
                              THEN LET patched == DG_add_edge(DG, nodo_final,
                                                              nodo_inicial, "set_patch")
                                   IN  IF Evaluated(patched) THEN pairs(patched, i + 1)
                                       ELSE DG
                              ELSE pairs(DG, i + 1)
    IN  IF num_circuits = 0 THEN DG0 ELSE pairs(DG0, 0)

\* _build_directed_logical_graph_py raises (an edge whose fibers have no .get)
build_raises(nodes, edges) ==
    \E i \in DOMAIN edges : segment_path_raises(edges[i].fibers)

\* (mutant) the return edge is added from u to v, like the forward edge
add_segment_edges_ReturnSameWay(DG, data) ==
    LET u   == data.source
        v   == data.target
        DG1 == IF check_segment_path_direction(data.fibers, DEFAULT_FIBRAS_COMMS_IDA)
               THEN DG_add_edge(DG, u, v, "ida") ELSE DG
    IN  IF check_segment_path_direction(data.fibers, DEFAULT_FIBRAS_COMMS_VUELTA)
        THEN DG_add_edge(DG1, u, v, "vuelta") ELSE DG1

\* the body of the loop over G.edges: the forward edge u->v and the return edge v->u
add_segment_edges(DG, data) ==
    LET u   == data.source
        v   == data.target
        DG1 == IF check_segment_path_direction(data.fibers, DEFAULT_FIBRAS_COMMS_IDA)
               THEN DG_add_edge(DG, u, v, "ida") ELSE DG
    IN  IF check_segment_path_direction(data.fibers, DEFAULT_FIBRAS_COMMS_VUELTA)
        THEN DG_add_edge(DG1, v, u, "vuelta") ELSE DG1

\* _build_directed_logical_graph_py
build_directed_logical_graph(nodes, edges) ==
    LET RECURSIVE segs(_, _)
        segs(DG, i) ==
            IF i > Len(edges) THEN DG
            ELSE LET DG2 == add_segment_edges(DG, edges[i])
                 IN  IF Evaluated(DG2) THEN segs(DG2, i + 1) ELSE DG
        segments == segs([n \in NodeIds(nodes) |-> <<>>], 1)
    IN  IF Evaluated(segments) THEN add_ring_connections(segments) ELSE segments

-----------------------------------------------------------------------------
(* Inputs the calls are explored with *)

SegmentInputs == {"CT22-CT21", "segmento_inexistente"}

FiberInputs == {1, 2, 17}

StatusInputs == {"ok", "averiado", "roto"}

CtInputs == {"SET", "CT22", "NODO_INEXISTENTE"}

ConfigNames == {"test_config", "cctv"}

\* the time the clock advances by in one step
TickStep == CACHE_EXPIRATION_TIME \div 2

\* time.time() when the model is constructed
Epoch == CACHE_EXPIRATION_TIME + 1

-----------------------------------------------------------------------------
(* NetworkModel.__init__ with a storage and an empty configurations table *)

\* the threads that call the engine
Threads == {1, 2}

\* a thread that is in no call: where it is at, and the locals of the call
Idle == [at |-> "idle", arg |-> <<>>]

(* _ensure_predefined_plants: the plant 'Sabinar I' is created and the     *)
(* default topology saved as its configuration 'default'.                  *)
PredefinedPlants ==
    [p \in {"Sabinar I"} |->
        [default |-> [nodes |-> DefaultNodes, edges |-> DefaultEdges]]]

Init ==
    /\ G_nodes = DefaultNodes
    /\ G_edges = DefaultEdges
    /\ DG_cache = <<>>
    /\ cache_valid = FALSE
    /\ last_cache_time = 0
    /\ now = Epoch
    /\ configurations = <<>>
    /\ fiber_status_log = <<>>
    /\ ret = [op |-> "__init__"]
    /\ storage = TRUE
    /\ plants = PredefinedPlants
    /\ active_plant_id = "default"
    /\ captured = <<>>
    /\ graph_lock = 0
    /\ pc = [t \in Threads |-> Idle]
    /\ search = NoSearch

-----------------------------------------------------------------------------
(* get_logical_graph *)

\* (mutant) the validity flag is tested the wrong way round
must_rebuild_FlagInverted ==
    \/ cache_valid
    \/ DG_cache = <<>>
    \/ now - last_cache_time > CACHE_EXPIRATION_TIME

\* (mutant) a cache as old as the window is already rebuilt
must_rebuild_AtWindow ==
    \/ ~cache_valid
    \/ DG_cache = <<>>
    \/ now - last_cache_time >= CACHE_EXPIRATION_TIME

\* the condition of the if: the cache is not reused
must_rebuild ==
    \/ ~cache_valid
    \/ DG_cache = <<>>
    \/ now - last_cache_time > CACHE_EXPIRATION_TIME

(* What one call of get_logical_graph does to the cache and returns: the   *)
(* build raising leaves the three fields as they were.                     *)
logical_graph_call ==
    IF must_rebuild
    THEN IF build_raises(G_nodes, G_edges)
         THEN [raised |-> TRUE, rebuilt |-> FALSE, cache |-> DG_cache,
               valid |-> cache_valid, time |-> last_cache_time]
         ELSE [raised |-> FALSE, rebuilt |-> TRUE,
               cache |-> <<build_directed_logical_graph(G_nodes, G_edges)>>,
               valid |-> TRUE, time |-> now]
    ELSE [raised |-> FALSE, rebuilt |-> FALSE, cache |-> DG_cache,
          valid |-> cache_valid, time |-> last_cache_time]

get_logical_graph ==
    LET r == logical_graph_call
    IN  /\ DG_cache' = r.cache
        /\ cache_valid' = r.valid
        /\ last_cache_time' = r.time
        /\ ret' = [op |-> "get_logical_graph", raised |-> r.raised,
                   rebuilt |-> r.rebuilt, age |-> now - last_cache_time,
                   was_valid |-> cache_valid /\ DG_cache # <<>>,
                   value |-> IF r.raised THEN <<>> ELSE r.cache]
        /\ UNCHANGED <<G_nodes, G_edges, now, configurations, fiber_status_log>>
        /\ UNCHANGED <<storage_vars, captured, thread_vars, search>>

-----------------------------------------------------------------------------
(* check_ct_connectivity *)

\* (mutant) one direction is enough
ct_status_EitherWay(DG, target_ct) ==
    IF ~DG_has_node(DG, "SET") \/ ~DG_has_node(DG, target_ct)
    THEN "aislado"
    ELSE LET has_path_to_ct   == has_path_limited_iterative(DG, "SET", target_ct, MAX_DEPTH)
             has_path_from_ct == has_path_limited_iterative(DG, target_ct, "SET", MAX_DEPTH)
         IN  IF has_path_to_ct \/ has_path_from_ct THEN "conectado" ELSE "aislado"

\* lines 294-309: the status of a node of G, given the logical graph
ct_status(DG, target_ct) ==
    IF ~DG_has_node(DG, "SET") \/ ~DG_has_node(DG, target_ct)
    THEN "aislado"
    ELSE LET has_path_to_ct   == has_path_limited_iterative(DG, "SET", target_ct, MAX_DEPTH)
             has_path_from_ct == has_path_limited_iterative(DG, target_ct, "SET", MAX_DEPTH)
         IN  IF has_path_to_ct /\ has_path_from_ct THEN "conectado" ELSE "aislado"

\* (mutant) SET is looked up and searched for like any other node
check_ct_connectivity_result_NoCenterCase(target_ct) ==
    LET untouched == [raised |-> FALSE, rebuilt |-> FALSE, cache |-> DG_cache,
                      valid |-> cache_valid, time |-> last_cache_time]
    IN  IF ~G_has_node(target_ct) THEN [status |-> "error", call |-> untouched]
        ELSE LET r == logical_graph_call
             IN  IF r.raised THEN [status |-> "error", call |-> r]
                 ELSE [status |-> ct_status(r.cache[1], target_ct), call |-> r]

\* the returned status and the get_logical_graph call made on the way, if any
check_ct_connectivity_result(target_ct) ==
    LET untouched == [raised |-> FALSE, rebuilt |-> FALSE, cache |-> DG_cache,
                      valid |-> cache_valid, time |-> last_cache_time]
    IN  IF target_ct = "SET" THEN [status |-> "conectado", call |-> untouched]
        ELSE IF ~G_has_node(target_ct) THEN [status |-> "error", call |-> untouched]
        ELSE LET r == logical_graph_call
             IN  IF r.raised THEN [status |-> "error", call |-> r]
                 ELSE [status |-> ct_status(r.cache[1], target_ct), call |-> r]

check_ct_connectivity(target_ct) ==
    LET res == check_ct_connectivity_result(target_ct)
    IN  /\ DG_cache' = res.call.cache
        /\ cache_valid' = res.call.valid
        /\ last_cache_time' = res.call.time
        /\ ret' = [op |-> "check_ct_connectivity", target_ct |-> target_ct,
                   value |-> res.status]
        /\ UNCHANGED <<G_nodes, G_edges, now, configurations, fiber_status_log>>
        /\ UNCHANGED <<storage_vars, captured, thread_vars, search>>

-----------------------------------------------------------------------------
(* _check_ring_integrity *)

\* results[key] = value
dict_set(d, key, value) ==
    [k \in (DOMAIN d) \cup {key} |-> IF k = key THEN value ELSE d[k]]

\* lines 318-344: the map, given the logical graph
ring_integrity(DG) ==
    LET ring_order == DEFAULT_RING_ORDER
        RECURSIVE pairs(_, _)
        pairs(results, i) ==
            IF i >= Len(ring_order) THEN results
            ELSE LET circuit_actual    == ring_order[i + 1]
                     circuit_siguiente == ring_order[((i + 1) % Len(ring_order)) + 1]
                     cts_actual        == circuitos_get(circuit_actual)
                     cts_siguiente     == circuitos_get(circuit_siguiente)
                     key               == SegName(circuit_actual, circuit_siguiente)
                     nodo_final        == cts_actual[Len(cts_actual)]
                     nodo_inicial      == cts_siguiente[1]
                     entry ==
                         IF cts_actual = <<>> \/ cts_siguiente = <<>> THEN FALSE
                         ELSE IF nodo_final = nodo_inicial THEN FALSE
                         ELSE IF DG_has_node(DG, nodo_final) /\ DG_has_node(DG, nodo_inicial)
                         THEN has_path_limited_iterative(DG, nodo_final, nodo_inicial,
                                                         MAX_DEPTH)
                         ELSE FALSE
                     next == dict_set(results, key, entry)
                 IN  IF Evaluated(next) THEN pairs(next, i + 1) ELSE results
    IN  pairs(<<>>, 0)

\* the returned map ({} when the call raised inside the try) and the cache call
check_ring_integrity_result ==
    LET r == logical_graph_call
    IN  IF r.raised THEN [results |-> <<>>, call |-> r]
        ELSE [results |-> ring_integrity(r.cache[1]), call |-> r]

check_ring_integrity ==
    LET res == check_ring_integrity_result
    IN  /\ DG_cache' = res.call.cache
        /\ cache_valid' = res.call.valid
        /\ last_cache_time' = res.call.time
        /\ ret' = [op |-> "_check_ring_integrity", raised |-> res.call.raised,
                   value |-> res.results]
        /\ UNCHANGED <<G_nodes, G_edges, now, configurations, fiber_status_log>>
        /\ UNCHANGED <<storage_vars, captured, thread_vars, search>>

-----------------------------------------------------------------------------
(* update_fiber_status and restore_segment_fibers *)

(* The result of _prepare_graph_data_for_save a caller holds: at_capture   *)
(* is what its edges said when it was made, edges what they say now, and   *)
(* shared the segments whose 'fibers' object is the one the live graph     *)
(* holds (edge_data.update(data) copies the reference, line 742).          *)

\* the edge of a segment id
edge_of(edges, id) == edges[CHOOSE i \in DOMAIN edges : edges[i].id = id]

(* the held result after update_fiber_status or restore_segment_fibers     *)
(* made the live edges new_edges: a strand map is written in place, a      *)
(* 'fibers' that is no dict is replaced by a new object                    *)
captured_after(new_edges) ==
    IF captured = <<>> THEN captured
    ELSE LET cap     == captured[1]
             inplace == {id \in cap.shared : edge_of(G_edges, id).fibers.kind = "dict"}
             kept    == {id \in cap.shared :
                            edge_of(new_edges, id).fibers = edge_of(G_edges, id).fibers}
         IN  <<[cap EXCEPT
                   !.edges = [i \in DOMAIN cap.edges |->
                                 IF cap.edges[i].id \in inplace
                                 THEN [cap.edges[i] EXCEPT
                                          !.fibers = edge_of(new_edges, cap.edges[i].id).fibers]
                                 ELSE cap.edges[i]],
                   !.shared = inplace \cup kept]>>

\* the held result after G.clear(): the live graph gets new objects
captured_detached ==
    IF captured = <<>> THEN captured ELSE <<[captured[1] EXCEPT !.shared = {}]>>

\* segment_match: by stored id or by either ordering of the endpoints
segment_match(data, segment_id) ==
    \/ data.id = segment_id
    \/ SegName(data.source, data.target) = segment_id
    \/ SegName(data.target, data.source) = segment_id

\* the first edge of G.edges that matches, 0 when none does
find_segment(segment_id) ==
    LET hits == {i \in DOMAIN G_edges : segment_match(G_edges[i], segment_id)}
    IN  IF hits = {} THEN 0 ELSE CHOOSE i \in hits : \A j \in hits : i <= j

\* lines 469-470 and 669-670: a 'fibers' that is no dict is replaced
ensure_fibers(fibers) ==
    IF fibers.kind # "dict" THEN get_initial_fiber_status ELSE fibers

\* an outcome of update_fiber_status that touches neither cache nor audit log
update_outcome(edges, ok, message) ==
    [edges |-> edges, valid |-> cache_valid, cache |-> DG_cache,
     log |-> fiber_status_log, ok |-> ok, message |-> message]

\* (mutant) the cache is dropped before the strand is looked up
fiber_not_found_CacheDropped(edges) ==
    [update_outcome(edges, FALSE, "fibra no encontrada")
        EXCEPT !.valid = FALSE, !.cache = <<>>]

\* lines 487-489: the strand index is not in the strand map
fiber_not_found(edges) == update_outcome(edges, FALSE, "fibra no encontrada")

\* (mutant) a write of the state the strand already has drops the cache too
fiber_unchanged_CacheDropped(edges) ==
    [update_outcome(edges, TRUE, "ya estaba") EXCEPT !.valid = FALSE, !.cache = <<>>]

\* lines 485-486: the strand already has the state
fiber_unchanged(edges) == update_outcome(edges, TRUE, "ya estaba")

\* (mutant) the strand is written and logged, the cache is kept
fiber_changed_CacheKept(edges, i, segment_id, fiber_key, old_status, new_status) ==
    [edges |-> [edges EXCEPT ![i].fibers.map[fiber_key] = new_status],
     valid |-> cache_valid,
     cache |-> DG_cache,
     log   |-> IF storage
               THEN Append(fiber_status_log,
                           [segment_id |-> segment_id, fiber_num |-> fiber_key,
                            old_status |-> old_status, new_status |-> new_status])
               ELSE fiber_status_log,
     ok |-> TRUE, message |-> "actualizada"]

(* lines 474-484: the strand is written, the cache dropped and the change  *)
(* logged (storage.log_fiber_status_change).                               *)
fiber_changed(edges, i, segment_id, fiber_key, old_status, new_status) ==
    [edges |-> [edges EXCEPT ![i].fibers.map[fiber_key] = new_status],
     valid |-> FALSE,
     cache |-> <<>>,
     log   |-> IF storage
               THEN Append(fiber_status_log,
                           [segment_id |-> segment_id, fiber_num |-> fiber_key,
                            old_status |-> old_status, new_status |-> new_status])
               ELSE fiber_status_log,
     ok |-> TRUE, message |-> "actualizada"]

(* update_fiber_status: the new edges, cache fields and audit log, and     *)
(* the returned (success, message).                                        *)
update_fiber_status_result(segment_id, fiber_num, new_status) ==
    LET fiber_key == str(fiber_num)
        i         == find_segment(segment_id)
    IN  IF new_status \notin {"ok", "averiado"}
        THEN update_outcome(G_edges, FALSE, "no es valido")
        ELSE IF i = 0 THEN update_outcome(G_edges, FALSE, "no encontrado")
        ELSE LET fibers == ensure_fibers(G_edges[i].fibers)
                 edges0 == [G_edges EXCEPT ![i].fibers = fibers]
             IN  IF fiber_key \in DOMAIN fibers.map
                 THEN IF fibers.map[fiber_key] # new_status
                      THEN fiber_changed(edges0, i, segment_id, fiber_key,
                                         fibers.map[fiber_key], new_status)
                      ELSE fiber_unchanged(edges0)
                 ELSE fiber_not_found(edges0)

update_fiber_status(segment_id, fiber_num, new_status) ==
    LET r == update_fiber_status_result(segment_id, fiber_num, new_status)
    IN  /\ Len(fiber_status_log) < MaxLog
        /\ G_edges' = r.edges
        /\ cache_valid' = r.valid
        /\ DG_cache' = r.cache
        /\ fiber_status_log' = r.log
        /\ ret' = [op |-> "update_fiber_status", ok |-> r.ok, message |-> r.message]
        /\ captured' = captured_after(r.edges)
        /\ UNCHANGED <<G_nodes, last_cache_time, now, configurations>>
        /\ UNCHANGED <<storage_vars, thread_vars, search>>

\* the for loop of lines 674-677: every 'averiado' strand becomes 'ok'
restore_map(m) == [k \in DOMAIN m |-> IF m[k] = "averiado" THEN "ok" ELSE m[k]]

\* (mutant) every strand of the map is counted
count_restored_EveryStrand(m) == Cardinality(DOMAIN m)

\* the for loop of lines 674-677: fibers_changed counts the strands it changed
count_restored(m) == Cardinality({k \in DOMAIN m : m[k] = "averiado"})

(* restore_segment_fibers: the new edges and cache fields, the number of   *)
(* strands changed and the returned success.                               *)
restore_segment_fibers_result(segment_id) ==
    LET i == find_segment(segment_id)
    IN  IF i = 0
        THEN [edges |-> G_edges, valid |-> cache_valid, cache |-> DG_cache,
              ok |-> FALSE, fibers_changed |-> 0]
        ELSE LET fibers == G_edges[i].fibers
                 fibers_changed ==
                     IF fibers.kind # "dict" THEN DEFAULT_TOTAL_FIBRAS
                     ELSE count_restored(fibers.map)
                 restored ==
                     IF fibers.kind # "dict" THEN get_initial_fiber_status
                     ELSE FibersDict(restore_map(fibers.map))
             IN  [edges |-> [G_edges EXCEPT ![i].fibers = restored],
                  valid |-> IF fibers_changed > 0 THEN FALSE ELSE cache_valid,
                  cache |-> IF fibers_changed > 0 THEN <<>> ELSE DG_cache,
                  ok |-> TRUE, fibers_changed |-> fibers_changed]

restore_segment_fibers(segment_id) ==
    LET r == restore_segment_fibers_result(segment_id)
    IN  /\ G_edges' = r.edges
        /\ cache_valid' = r.valid
        /\ DG_cache' = r.cache
        /\ ret' = [op |-> "restore_segment_fibers", segment_id |-> segment_id,
                   ok |-> r.ok, fibers_changed |-> r.fibers_changed]
        /\ captured' = captured_after(r.edges)
        /\ UNCHANGED <<G_nodes, last_cache_time, now, configurations, fiber_status_log>>
        /\ UNCHANGED <<storage_vars, thread_vars, search>>

-----------------------------------------------------------------------------
(* get_segment_data, get_reconnection_suggestions and get_network_status *)

(* get_segment_data: a copy of every edge with its id and a strand map of  *)
(* 'ok' and 'averiado' values, keyed by segment id here (the list is       *)
(* sorted by circuit and id; its order is not modelled).                   *)
get_segment_data ==
    LET fibers_of(e) ==
            IF e.fibers.kind = "dict"
            THEN [k \in DOMAIN e.fibers.map |->
                     IF e.fibers.map[k] \in {"ok", "averiado"} THEN e.fibers.map[k] ELSE "ok"]
            ELSE IF e.fibers.kind = "absent" THEN <<>>   \* seg_data.get('fibers', {})
            ELSE get_initial_fiber_status.map
        seg(i) == [id |-> G_edges[i].id, source |-> G_edges[i].source,
                   target |-> G_edges[i].target, circuit |-> G_edges[i].circuit,
                   fibers |-> fibers_of(G_edges[i])]
    IN  [id \in {G_edges[i].id : i \in DOMAIN G_edges} |->
            seg(CHOOSE i \in DOMAIN G_edges : G_edges[i].id = id)]

\* [fn for fn in role if fibers.get(str(fn)) == state]
strands_in(fibers, role, state) ==
    SelectSeq(role, LAMBDA fn : dict_get(fibers, str(fn)) = state)

(* The finding for one direction: the faulty strands, and either the       *)
(* proposal reservas_ok[:needed] or the insufficiency warning.             *)
direction_finding(averiadas, reservas_ok) ==
    LET needed == Len(averiadas)
        fits   == Len(reservas_ok) >= needed
    IN  [averiadas    |-> averiadas,
         sug_res      |-> IF averiadas # <<>> /\ fits THEN SubSeq(reservas_ok, 1, needed)
                          ELSE <<>>,
         insuficiente |-> averiadas # <<>> /\ ~fits]

\* (mutant) the forward proposal stays in the pool
reservas_after_ida_Untouched(averiadas_ida, reservas_ok) == reservas_ok

\* lines 548-553: reservas_ok = reservas_ok[needed:] after a forward proposal
reservas_after_ida(averiadas_ida, reservas_ok) ==
    IF averiadas_ida # <<>> /\ Len(reservas_ok) >= Len(averiadas_ida)
    THEN SubSeq(reservas_ok, Len(averiadas_ida) + 1, Len(reservas_ok))
    ELSE reservas_ok

(* lines 564-569: the video strands get reservas_ok[:n] of the pool as the *)
(* forward proposal left it; with too few reserves nothing is said.        *)
cctv_finding(cctv_averiadas, reservas_ok) ==
    [averiadas |-> cctv_averiadas,
     sug_res   |-> IF cctv_averiadas # <<>> /\ Len(reservas_ok) >= Len(cctv_averiadas)
                   THEN SubSeq(reservas_ok, 1, Len(cctv_averiadas))
                   ELSE <<>>]

(* lines 531-571, the body of the loop over the segments: the findings of  *)
(* one segment, reported only when a forward or return strand is faulty.   *)
segment_findings(fibers) ==
    LET averiadas_ida    == strands_in(fibers, DEFAULT_FIBRAS_COMMS_IDA, "averiado")
        averiadas_vuelta == strands_in(fibers, DEFAULT_FIBRAS_COMMS_VUELTA, "averiado")
        reservas_ok      == SortSeq(strands_in(fibers, DEFAULT_FIBRAS_RESERVA, "ok"),
                                    LAMBDA a, b : a < b)
        cctv_averiadas   == strands_in(fibers, DEFAULT_FIBRAS_CCTV, "averiado")
        reservas_left    == reservas_after_ida(averiadas_ida, reservas_ok)
    IN  [reported |-> averiadas_ida # <<>> \/ averiadas_vuelta # <<>>,
         ida      |-> direction_finding(averiadas_ida, reservas_ok),
         vuelta   |-> direction_finding(averiadas_vuelta, reservas_left),
         cctv     |-> cctv_finding(cctv_averiadas, reservas_left)]

(* get_reconnection_suggestions: the lines of the diagnosis as a record;   *)
(* ring_status is what its _check_ring_integrity call returned.            *)
get_reconnection_suggestions(ct_statuses, segments, ring_status) ==
    LET with(st)  == {ct \in DOMAIN ct_statuses : ct_statuses[ct] = st}
        findings  == [id \in DOMAIN segments |-> segment_findings(segments[id].fibers)]
        reported  == {id \in DOMAIN segments : findings[id].reported}
    IN  [errores   |-> with("error"),
         aislados  |-> with("aislado"),
         todos_conectados |-> with("error") = {} /\ with("aislado") = {}
                                /\ with("conectado") # {},
         sin_cts   |-> with("error") = {} /\ with("aislado") = {}
                                /\ with("conectado") = {},
         segmentos |-> [id \in reported |-> findings[id]],
         sin_fallo_comms |-> reported = {} /\ with("aislado") # {},
         anillo_completo |-> \A k \in DOMAIN ring_status : ring_status[k],
         conexiones_interrumpidas |-> {k \in DOMAIN ring_status : ~ring_status[k]}]

\* lines 383-393: 'faulty' when a forward or return strand of the segment is faulty
comm_status(fibers) ==
    IF \E fn \in CommsFibers : dict_get(fibers, str(fn)) = "averiado"
    THEN "faulty" ELSE "ok"

(* get_network_status: the report and the cache fields its                 *)
(* get_logical_graph calls leave (the first call builds, the others reuse; *)
(* when the build raises every node is 'error' and the ring map empty).    *)
get_network_status_result ==
    LET all_cts == {G_nodes[i].id : i \in {i \in DOMAIN G_nodes : G_nodes[i].type = "ct"}}
        call    == logical_graph_call
        ct_statuses ==
            [ct \in all_cts |-> IF call.raised THEN "error"
                                ELSE ct_status(call.cache[1], ct)]
        data     == get_segment_data
        segments == [id \in DOMAIN data |->
                        [id |-> data[id].id, source |-> data[id].source,
                         target |-> data[id].target, circuit |-> data[id].circuit,
                         fibers |-> data[id].fibers,
                         comm_status |-> comm_status(data[id].fibers)]]
        ring_status == IF call.raised THEN <<>> ELSE ring_integrity(call.cache[1])
    IN  [call   |-> call,
         report |-> [ct_connectivity  |-> ct_statuses,
                     segment_statuses |-> segments,
                     suggestions      |-> get_reconnection_suggestions(
                                              ct_statuses, segments, ring_status)]]

(* get_fiber_statistics: per role, the strands of the segments that read   *)
(* 'ok' and the number of strands the role has in all segments.            *)
get_fiber_statistics(segments) ==
    LET ids == DOMAIN segments
        comm_fibers_range == DEFAULT_FIBRAS_COMMS_IDA \o DEFAULT_FIBRAS_COMMS_VUELTA
        ok_in(role) ==
            Cardinality({<<id, k>> \in ids \X DOMAIN role :
                            dict_get(segments[id].fibers, str(role[k])) = "ok"})
    IN  [comm_ok       |-> ok_in(comm_fibers_range),
         comm_total    |-> Cardinality(ids) * Len(comm_fibers_range),
         reserve_ok    |-> ok_in(DEFAULT_FIBRAS_RESERVA),
         reserve_total |-> Cardinality(ids) * Len(DEFAULT_FIBRAS_RESERVA),
         cctv_ok       |-> ok_in(DEFAULT_FIBRAS_CCTV),
         cctv_total    |-> Cardinality(ids) * Len(DEFAULT_FIBRAS_CCTV)]

\* the statistics of the segments as the window asks for them
fiber_statistics ==
    /\ ret' = [op |-> "get_fiber_statistics",
               value |-> IF get_segment_data = <<>>
                         THEN [comm_ok |-> 0, comm_total |-> 0, reserve_ok |-> 0,
                               reserve_total |-> 0, cctv_ok |-> 0, cctv_total |-> 0]
                         ELSE get_fiber_statistics(get_segment_data)]
    /\ UNCHANGED <<G_nodes, G_edges, DG_cache, cache_valid, last_cache_time, now,
                   configurations, fiber_status_log>>
    /\ UNCHANGED <<storage_vars, captured, thread_vars, search>>

\* (mutant) the segment records are the live edge dicts: comm_status is written into G
get_network_status_NoCopy ==
    LET res == get_network_status_result
    IN  /\ DG_cache' = res.call.cache
        /\ cache_valid' = res.call.valid
        /\ last_cache_time' = res.call.time
        /\ ret' = [op |-> "get_network_status", value |-> res.report]
        /\ G_edges' = [i \in DOMAIN G_edges |->
                          [k \in (DOMAIN G_edges[i]) \cup {"comm_status"} |->
                              IF k = "comm_status"
                              THEN res.report.segment_statuses[G_edges[i].id].comm_status
                              ELSE G_edges[i][k]]]
        /\ UNCHANGED <<G_nodes, now, configurations, fiber_status_log>>
        /\ UNCHANGED <<storage_vars, captured, thread_vars, search>>

get_network_status ==
    LET res == get_network_status_result
    IN  /\ DG_cache' = res.call.cache
        /\ cache_valid' = res.call.valid
        /\ last_cache_time' = res.call.time
        /\ ret' = [op |-> "get_network_status", value |-> res.report]
        /\ UNCHANGED <<G_nodes, G_edges, now, configurations, fiber_status_log>>
        /\ UNCHANGED <<storage_vars, captured, thread_vars, search>>

-----------------------------------------------------------------------------
(* _init_graph, save_configuration, load_configuration, save_cctv_config *)

\* graph_data.get(key, [])
data_get(graph_data, key) ==
    IF key \in DOMAIN graph_data THEN graph_data[key] ELSE <<>>

\* G.add_edge adds the endpoints G does not hold yet
with_endpoints(nodes, edges) ==
    LET RECURSIVE add(_, _)
        add(ns, i) ==
            IF i > Len(edges) THEN ns
            ELSE LET new(n) == [id |-> n, type |-> "None", circuit |-> "None"]
                     n1 == IF edges[i].source \in NodeIds(ns) THEN ns
                           ELSE Append(ns, new(edges[i].source))
                     n2 == IF edges[i].target \in NodeIds(n1) THEN n1
                           ELSE Append(n1, new(edges[i].target))
                 IN  IF Evaluated(n2) THEN add(n2, i + 1) ELSE ns
    IN  add(nodes, 1)

\* _init_graph(): G is cleared and filled with the default topology, the cache dropped
init_graph_default ==
    /\ G_nodes' = DefaultNodes
    /\ G_edges' = DefaultEdges
    /\ cache_valid' = FALSE
    /\ DG_cache' = <<>>
    /\ last_cache_time' = 0
    /\ ret' = [op |-> "_init_graph"]
    /\ captured' = captured_detached
    /\ UNCHANGED <<now, configurations, fiber_status_log>>
    /\ UNCHANGED <<storage_vars, thread_vars, search>>

\* _prepare_graph_data_for_save, as save_config serializes it
prepare_graph_data_for_save == [nodes |-> G_nodes, edges |-> G_edges]

(* _prepare_graph_data_for_save called and its result held: every edge is  *)
(* a new dict with the attributes of the live edge, the 'fibers' object    *)
(* among them.                                                             *)
snapshot ==
    /\ captured' = <<[at_capture |-> prepare_graph_data_for_save.edges,
                      edges      |-> prepare_graph_data_for_save.edges,
                      shared     |-> {G_edges[i].id :
                                         i \in {j \in DOMAIN G_edges :
                                                   G_edges[j].fibers.kind # "absent"}}]>>
    /\ ret' = [op |-> "_prepare_graph_data_for_save"]
    /\ UNCHANGED <<G_nodes, G_edges, DG_cache, cache_valid, last_cache_time, now,
                   configurations, fiber_status_log>>
    /\ UNCHANGED <<storage_vars, thread_vars, search>>

\* save_configuration: without a storage nothing is captured and the call fails
save_configuration(name) ==
    /\ configurations' = IF storage
                         THEN dict_set(configurations, name, prepare_graph_data_for_save)
                         ELSE configurations
    /\ ret' = [op |-> "save_configuration", name |-> name, ok |-> storage]
    /\ UNCHANGED <<G_nodes, G_edges, DG_cache, cache_valid, last_cache_time, now,
                   fiber_status_log>>
    /\ UNCHANGED <<storage_vars, captured, thread_vars, search>>

\* save_cctv_config: the camera table is stored under the fixed name 'cctv'
save_cctv_config ==
    /\ configurations' = IF storage
                         THEN dict_set(configurations, "cctv", [CT01 |-> "camaras"])
                         ELSE configurations
    /\ ret' = [op |-> "save_cctv_config", ok |-> storage]
    /\ UNCHANGED <<G_nodes, G_edges, DG_cache, cache_valid, last_cache_time, now,
                   fiber_status_log>>
    /\ UNCHANGED <<storage_vars, captured, thread_vars, search>>

\* the first element of a list of dicts that lacks one of the keys, 0 if none does
first_key_error(dicts, keys) ==
    LET bad == {i \in DOMAIN dicts : ~(keys \subseteq DOMAIN dicts[i])}
    IN  IF bad = {} THEN 0 ELSE CHOOSE i \in bad : \A j \in bad : i <= j

\* (mutant) the edges are added with a new strand map, every strand 'ok'
init_graph_loaded_NewStrands(graph_data) ==
    LET nodes == with_endpoints(data_get(graph_data, "nodes"), data_get(graph_data, "edges"))
        edges == G_edges_view(nodes, data_get(graph_data, "edges"))
    IN  [raised |-> FALSE,
         nodes  |-> nodes,
         edges  |-> [i \in DOMAIN edges |->
                        [edges[i] EXCEPT !.fibers = get_initial_fiber_status]]]

(* _init_graph(graph_data), lines 109-128: G is cleared, then the nodes    *)
(* and the edges of the data are added in order; node['id'],               *)
(* edge['source'] and edge['target'] raise KeyError on a dict without the  *)
(* key, and what was added before stays in G.                              *)
init_graph_loaded(graph_data) ==
    LET nodes_in == data_get(graph_data, "nodes")
        edges_in == data_get(graph_data, "edges")
        bad_node == first_key_error(nodes_in, {"id"})
        bad_edge == first_key_error(edges_in, {"source", "target"})
        added_nodes == IF bad_node # 0 THEN SubSeq(nodes_in, 1, bad_node - 1) ELSE nodes_in
        added_edges == IF bad_node # 0 THEN <<>>
                       ELSE IF bad_edge # 0 THEN SubSeq(edges_in, 1, bad_edge - 1)
                       ELSE edges_in
        nodes == with_endpoints(added_nodes, added_edges)
    IN  [raised |-> bad_node # 0 \/ bad_edge # 0,
         nodes  |-> nodes,
         edges  |-> G_edges_view(nodes, added_edges)]

(* load_configuration: a name the table does not hold is a failure; else   *)
(* _init_graph(graph_data) refills G from the 'nodes' and 'edges' of the   *)
(* stored data and drops the cache (195-197). An exception of _init_graph  *)
(* skips the cache lines and is turned into a failure (777-779).           *)
load_configuration(name) ==
    IF ~storage \/ name \notin DOMAIN configurations
    THEN /\ ret' = [op |-> "load_configuration", name |-> name, ok |-> FALSE]
         /\ UNCHANGED <<G_nodes, G_edges, DG_cache, cache_valid, last_cache_time, now,
                        configurations, fiber_status_log>>
         /\ UNCHANGED <<storage_vars, captured, thread_vars, search>>
    ELSE LET loaded == init_graph_loaded(configurations[name])
         IN  /\ G_nodes' = loaded.nodes
             /\ G_edges' = loaded.edges
             /\ cache_valid' = IF loaded.raised THEN cache_valid ELSE FALSE
             /\ DG_cache' = IF loaded.raised THEN DG_cache ELSE <<>>
             /\ last_cache_time' = IF loaded.raised THEN last_cache_time ELSE 0
             /\ ret' = [op |-> "load_configuration", name |-> name, ok |-> ~loaded.raised]
             /\ captured' = captured_detached
             /\ UNCHANGED <<now, configurations, fiber_status_log>>
             /\ UNCHANGED <<storage_vars, thread_vars, search>>

-----------------------------------------------------------------------------
(* get_available_plants, create_plant, rename_plant. The configurations of *)
(* the active plant are the table `configurations`, those of every other   *)
(* plant are in `plants`.                                                  *)

\* get_available_plants with a storage: the ids of the plants table
get_available_plants == (DOMAIN plants) \cup {active_plant_id}

\* storage.copy_configurations: the configurations of the source plant, if it exists
copy_configurations(source_plant_id) ==
    IF source_plant_id = active_plant_id THEN configurations
    ELSE IF source_plant_id \in DOMAIN plants THEN plants[source_plant_id]
    ELSE <<>>

\* a call that fails before it changes anything
plant_call_fails(op, plant_id) ==
    /\ ret' = [op |-> op, plant_id |-> plant_id, ok |-> FALSE]
    /\ UNCHANGED <<G_nodes, G_edges, DG_cache, cache_valid, last_cache_time, now,
                   configurations, fiber_status_log>>
    /\ UNCHANGED <<storage_vars, captured, thread_vars, search>>

(* create_plant: the plant is added to the plants table. From another      *)
(* plant than 'Sabinar I' its configurations are copied; else the graph is *)
(* initialised with the default topology (lines 881-889 and 894-898) and   *)
(* saved as the configuration 'default' of the new plant. base_plant_id    *)
(* "None" is no base.                                                      *)
create_plant(plant_id, base_plant_id) ==
    IF ~storage \/ plant_id \in get_available_plants
    THEN plant_call_fails("create_plant", plant_id)
    ELSE IF base_plant_id \notin {"None", "Sabinar I"}
    THEN /\ plants' = dict_set(plants, plant_id, copy_configurations(base_plant_id))
         /\ ret' = [op |-> "create_plant", plant_id |-> plant_id, ok |-> TRUE]
         /\ UNCHANGED <<G_nodes, G_edges, DG_cache, cache_valid, last_cache_time, now,
                        configurations, fiber_status_log>>
         /\ UNCHANGED <<storage, active_plant_id, captured, thread_vars, search>>
    ELSE LET graph_data == [nodes |-> DefaultNodes, edges |-> DefaultEdges]
             nodes == IF base_plant_id = "Sabinar I"
                      THEN with_endpoints(graph_data.nodes, graph_data.edges)
                      ELSE DefaultNodes
             edges == IF base_plant_id = "Sabinar I"
                      THEN G_edges_view(nodes, graph_data.edges)
                      ELSE DefaultEdges
         IN  /\ G_nodes' = nodes
             /\ G_edges' = edges
             /\ cache_valid' = FALSE
             /\ DG_cache' = <<>>
             /\ last_cache_time' = 0
             /\ plants' = dict_set(plants, plant_id, [default |-> graph_data])
             /\ ret' = [op |-> "create_plant", plant_id |-> plant_id, ok |-> TRUE]
             /\ captured' = captured_detached
             /\ UNCHANGED <<now, configurations, fiber_status_log>>
             /\ UNCHANGED <<storage, active_plant_id, thread_vars, search>>

(* rename_plant: the row of the plants table and the plant_id of its       *)
(* configurations are updated, and active_plant_id if it was the plant.    *)
rename_plant(old_id, new_id) ==
    IF ~storage \/ old_id \notin get_available_plants \/ new_id \in get_available_plants
    THEN plant_call_fails("rename_plant", old_id)
    ELSE /\ active_plant_id' = IF active_plant_id = old_id THEN new_id ELSE active_plant_id
         /\ plants' = [p \in ((DOMAIN plants) \ {old_id})
                                \cup (IF old_id \in DOMAIN plants THEN {new_id} ELSE {}) |->
                           IF p = new_id THEN plants[old_id] ELSE plants[p]]
         /\ ret' = [op |-> "rename_plant", plant_id |-> old_id, ok |-> TRUE]
         /\ UNCHANGED <<G_nodes, G_edges, DG_cache, cache_valid, last_cache_time, now,
                        configurations, fiber_status_log>>
         /\ UNCHANGED <<storage, captured, thread_vars, search>>

-----------------------------------------------------------------------------
(* The calls as threads make them: `with self.graph_lock` is entered when  *)
(* the lock is free, the statements under it run while the thread holds    *)
(* it, a step at a time where another thread could see the difference, and *)
(* the lock is given back when the block is left.                          *)

\* (mutant) a thread enters the block whoever holds the lock
lock_is_free_Ignored == TRUE

\* threading.Lock.acquire returns
lock_is_free == graph_lock = 0

\* what the thread steps leave alone
thread_frame == UNCHANGED <<now, ret, storage_vars, captured, search>>

\* thread t goes to `at` with the locals `arg`
goto(t, at, arg) == pc' = [pc EXCEPT ![t] = [at |-> at, arg |-> arg]]

\* update_fiber_status, line 461: the status is valid and the lock is taken
update_fiber_status_enter(t, segment_id, fiber_num, new_status) ==
    /\ pc[t] = Idle
    /\ lock_is_free
    /\ Len(fiber_status_log) < MaxLog
    /\ graph_lock' = t
    /\ goto(t, "update_fiber_status", <<segment_id, fiber_num, new_status>>)
    /\ UNCHANGED <<G_nodes, G_edges, DG_cache, cache_valid, last_cache_time,
                   configurations, fiber_status_log>>
    /\ thread_frame

(* lines 462-479: the strand is written and the cache dropped; a change    *)
(* with a storage goes on to the audit call, every other outcome leaves    *)
(* the block.                                                              *)
update_fiber_status_write(t) ==
    LET r == update_fiber_status_result(pc[t].arg[1], pc[t].arg[2], pc[t].arg[3])
        logs == r.log # fiber_status_log
    IN  /\ pc[t].at = "update_fiber_status"
        /\ G_edges' = r.edges
        /\ cache_valid' = r.valid
        /\ DG_cache' = r.cache
        /\ graph_lock' = IF logs \/ graph_lock # t THEN graph_lock ELSE 0
        /\ IF logs THEN goto(t, "log_fiber_status_change", r.log) ELSE goto(t, "idle", <<>>)
        /\ UNCHANGED <<G_nodes, last_cache_time, configurations, fiber_status_log>>
        /\ thread_frame

\* lines 481-484: storage.log_fiber_status_change, then the block is left
update_fiber_status_log(t) ==
    /\ pc[t].at = "log_fiber_status_change"
    /\ fiber_status_log' = pc[t].arg
    /\ graph_lock' = IF graph_lock = t THEN 0 ELSE graph_lock
    /\ goto(t, "idle", <<>>)
    /\ UNCHANGED <<G_nodes, G_edges, DG_cache, cache_valid, last_cache_time,
                   configurations>>
    /\ thread_frame

\* restore_segment_fibers, lines 662-667: the lock is taken and the segment looked up
restore_segment_fibers_enter(t, segment_id) ==
    /\ pc[t] = Idle
    /\ lock_is_free
    /\ graph_lock' = IF find_segment(segment_id) = 0 THEN 0 ELSE t
    /\ IF find_segment(segment_id) = 0 THEN goto(t, "idle", <<>>)
       ELSE goto(t, "restore_loop", [i |-> find_segment(segment_id), fibers_changed |-> 0])
    /\ UNCHANGED <<G_nodes, G_edges, DG_cache, cache_valid, last_cache_time,
                   configurations, fiber_status_log>>
    /\ thread_frame

\* the strands of an edge the for loop of lines 674-677 has yet to restore
to_restore(edge) ==
    {k \in 1..DEFAULT_TOTAL_FIBRAS : dict_get(edge.fibers.map, str(k)) = "averiado"}

(* lines 674-682: one pass of the for loop restores the next faulty        *)
(* strand; after the last one the cache is dropped if a strand changed,    *)
(* and the block is left.                                                  *)
restore_segment_fibers_step(t) ==
    LET i    == pc[t].arg.i
        left == to_restore(G_edges[i])
        next == CHOOSE k \in left : \A j \in left : k <= j
    IN  /\ pc[t].at = "restore_loop"
        /\ IF left # {}
           THEN /\ G_edges' = [G_edges EXCEPT ![i].fibers.map[str(next)] = "ok"]
                /\ goto(t, "restore_loop", [pc[t].arg EXCEPT !.fibers_changed = @ + 1])
                /\ UNCHANGED <<graph_lock, cache_valid, DG_cache>>
           ELSE /\ cache_valid' = IF pc[t].arg.fibers_changed > 0 THEN FALSE ELSE cache_valid
                /\ DG_cache' = IF pc[t].arg.fibers_changed > 0 THEN <<>> ELSE DG_cache
                /\ graph_lock' = IF graph_lock = t THEN 0 ELSE graph_lock
                /\ goto(t, "idle", <<>>)
                /\ UNCHANGED G_edges
        /\ UNCHANGED <<G_nodes, last_cache_time, configurations, fiber_status_log>>
        /\ thread_frame

\* _init_graph(), lines 107-109: the lock is taken and G cleared
init_graph_clear(t) ==
    /\ pc[t] = Idle
    /\ lock_is_free
    /\ graph_lock' = t
    /\ G_nodes' = <<>>
    /\ G_edges' = <<>>
    /\ goto(t, "init_graph_fill", <<>>)
    /\ UNCHANGED <<DG_cache, cache_valid, last_cache_time, configurations,
                   fiber_status_log>>
    /\ thread_frame

\* lines 133-197: G is filled with the default topology, the cache dropped, the block left
init_graph_fill(t) ==
    /\ pc[t].at = "init_graph_fill"
    /\ G_nodes' = DefaultNodes
    /\ G_edges' = DefaultEdges
    /\ cache_valid' = FALSE
    /\ DG_cache' = <<>>
    /\ last_cache_time' = 0
    /\ graph_lock' = IF graph_lock = t THEN 0 ELSE graph_lock
    /\ goto(t, "idle", <<>>)
    /\ UNCHANGED <<configurations, fiber_status_log>>
    /\ thread_frame

\* get_logical_graph, line 206: the lock is taken
get_logical_graph_enter(t) ==
    /\ pc[t] = Idle
    /\ lock_is_free
    /\ graph_lock' = t
    /\ goto(t, "get_logical_graph", <<>>)
    /\ UNCHANGED <<G_nodes, G_edges, DG_cache, cache_valid, last_cache_time,
                   configurations, fiber_status_log>>
    /\ thread_frame

(* lines 208-215: the cache is rebuilt if it has to be, and the block      *)
(* left. A build that raises leaves the block by the exception.            *)
get_logical_graph_build(t) ==
    LET r == logical_graph_call
    IN  /\ pc[t].at = "get_logical_graph"
        /\ DG_cache' = r.cache
        /\ cache_valid' = r.valid
        /\ last_cache_time' = r.time
        /\ graph_lock' = IF graph_lock = t THEN 0 ELSE graph_lock
        /\ goto(t, "idle", <<>>)
        /\ UNCHANGED <<G_nodes, G_edges, configurations, fiber_status_log>>
        /\ thread_frame

(* save_configuration, lines 708 and 727-747: the lock is taken, the graph *)
(* data copied and the block left; the thread goes on to storage.save_config *)
save_configuration_prepare(t, name) ==
    /\ pc[t] = Idle
    /\ storage
    /\ lock_is_free
    /\ goto(t, "save_config", [name |-> name, graph_data |-> prepare_graph_data_for_save])
    /\ UNCHANGED <<G_nodes, G_edges, DG_cache, cache_valid, last_cache_time,
                   configurations, fiber_status_log, graph_lock>>
    /\ thread_frame

\* line 711: storage.save_config
save_configuration_save(t) ==
    /\ pc[t].at = "save_config"
    /\ configurations' = dict_set(configurations, pc[t].arg.name, pc[t].arg.graph_data)
    /\ goto(t, "idle", <<>>)
    /\ UNCHANGED <<G_nodes, G_edges, DG_cache, cache_valid, last_cache_time,
                   fiber_status_log, graph_lock>>
    /\ thread_frame

\* the node ids of the default topology as sorted() orders them
CtOrder ==
    <<"CT01", "CT02", "CT03", "CT04", "CT05", "CT06", "CT07", "CT08", "CT09", "CT10",
      "CT11", "CT12", "CT13", "CT14", "CT15", "CT16", "CT17", "CT18", "CT19", "CT20",
      "CT21", "CT22">>

(* get_network_status, lines 354-355: all_cts is read inside the locked    *)
(* block, which is left before the loop over the nodes starts.             *)
get_network_status_enter(t) ==
    /\ pc[t] = Idle
    /\ lock_is_free
    /\ goto(t, "check_ct_connectivity",
            [all_cts |-> SelectSeq(CtOrder, LAMBDA n :
                             \E i \in DOMAIN G_nodes :
                                 G_nodes[i].id = n /\ G_nodes[i].type = "ct"),
             ct_statuses |-> <<>>])
    /\ UNCHANGED <<G_nodes, G_edges, DG_cache, cache_valid, last_cache_time,
                   configurations, fiber_status_log, graph_lock>>
    /\ thread_frame

(* lines 365-368: check_ct_connectivity for the next node of all_cts; the  *)
(* call takes the lock for its has_node test and again in                   *)
(* get_logical_graph, and searches the graph it was given.                 *)
get_network_status_check(t) ==
    /\ pc[t].at = "check_ct_connectivity"
    /\ lock_is_free
    /\ IF pc[t].arg.all_cts = <<>>
       THEN /\ goto(t, "get_segment_data", pc[t].arg.ct_statuses)
            /\ UNCHANGED <<DG_cache, cache_valid, last_cache_time>>
       ELSE LET ct  == Head(pc[t].arg.all_cts)
                res == check_ct_connectivity_result(ct)
            IN  /\ DG_cache' = res.call.cache
                /\ cache_valid' = res.call.valid
                /\ last_cache_time' = res.call.time
                /\ goto(t, "check_ct_connectivity",
                        [all_cts |-> Tail(pc[t].arg.all_cts),
                         ct_statuses |-> dict_set(pc[t].arg.ct_statuses, ct, res.status)])
    /\ UNCHANGED <<G_nodes, G_edges, configurations, fiber_status_log, graph_lock>>
    /\ thread_frame

(* lines 373-394: get_segment_data copies the segments inside its locked   *)
(* block; comm_status is computed on the copies.                           *)
get_network_status_segments(t) ==
    LET data     == get_segment_data
        segments == [id \in DOMAIN data |->
                        [id |-> data[id].id, source |-> data[id].source,
                         target |-> data[id].target, circuit |-> data[id].circuit,
                         fibers |-> data[id].fibers,
                         comm_status |-> comm_status(data[id].fibers)]]
    IN  /\ pc[t].at = "get_segment_data"
        /\ lock_is_free
        /\ goto(t, "get_reconnection_suggestions",
                [ct_statuses |-> pc[t].arg, segments |-> segments])
        /\ UNCHANGED <<G_nodes, G_edges, DG_cache, cache_valid, last_cache_time,
                       configurations, fiber_status_log, graph_lock>>
        /\ thread_frame

(* lines 397-403: the advisor, whose _check_ring_integrity takes the lock  *)
(* in get_logical_graph, and the return of the report.                     *)
get_network_status_return(t) ==
    LET call        == logical_graph_call
        ring_status == IF call.raised THEN <<>> ELSE ring_integrity(call.cache[1])
    IN  /\ pc[t].at = "get_reconnection_suggestions"
        /\ lock_is_free
        /\ DG_cache' = call.cache
        /\ cache_valid' = call.valid
        /\ last_cache_time' = call.time
        /\ ret' = [op |-> "get_network_status",
                   value |-> [ct_connectivity  |-> pc[t].arg.ct_statuses,
                              segment_statuses |-> pc[t].arg.segments,
                              suggestions      |-> get_reconnection_suggestions(
                                                       pc[t].arg.ct_statuses,
                                                       pc[t].arg.segments, ring_status)]]
        /\ goto(t, "idle", <<>>)
        /\ UNCHANGED <<G_nodes, G_edges, configurations, fiber_status_log, graph_lock>>
        /\ UNCHANGED <<now, storage_vars, captured, search>>

\* the clock advances
Tick ==
    /\ now < Epoch + MaxTicks * TickStep
    /\ now' = now + TickStep
    /\ UNCHANGED <<G_nodes, G_edges, DG_cache, cache_valid, last_cache_time,
                   configurations, fiber_status_log, ret>>
    /\ UNCHANGED <<storage_vars, captured, thread_vars, search>>

-----------------------------------------------------------------------------
(* Spec: one plant, mutated and queried from one thread; the clock stands  *)
(* and no configuration is saved or loaded.                                *)

Next ==
    \/ \E s \in SegmentInputs, f \in FiberInputs, st \in StatusInputs :
            update_fiber_status(s, f, st)
    \/ \E s \in SegmentInputs : restore_segment_fibers(s)
    \/ get_logical_graph
    \/ \E ct \in CtInputs : check_ct_connectivity(ct)
    \/ check_ring_integrity
    \/ init_graph_default

Spec == Init /\ [][Next]_vars

(* SpecStore: the plant with its configurations saved and loaded, the      *)
(* camera table among them.                                                *)

NextStore ==
    \/ \E f \in {1, 2}, st \in {"ok", "averiado"} : update_fiber_status("CT21-CT22", f, st)
    \/ restore_segment_fibers("CT21-CT22")
    \/ get_logical_graph
    \/ \E ct \in {"SET", "CT22"} : check_ct_connectivity(ct)
    \/ init_graph_default
    \/ save_configuration("test_config")
    \/ \E name \in ConfigNames : load_configuration(name)
    \/ save_cctv_config

SpecStore == Init /\ [][NextStore]_vars

(* SpecClock: the logical graph asked for while the clock advances and     *)
(* strands change.                                                         *)

NextClock ==
    \/ \E f \in {1, 2}, st \in {"ok", "averiado"} : update_fiber_status("CT21-CT22", f, st)
    \/ restore_segment_fibers("CT21-CT22")
    \/ get_logical_graph
    \/ init_graph_default
    \/ Tick

SpecClock == Init /\ [][NextClock]_vars

(* SpecFault: the configurations table already holds a configuration that  *)
(* this engine did not write: its segment CT21-CT22 carries a JSON list    *)
(* where the strand map belongs.                                           *)

LegacyEdges ==
    [i \in DOMAIN DefaultEdges |->
        IF DefaultEdges[i].id = "CT21-CT22"
        THEN [DefaultEdges[i] EXCEPT !.fibers = [kind |-> "list", map |-> <<>>]]
        ELSE DefaultEdges[i]]

InitFault ==
    /\ G_nodes = DefaultNodes
    /\ G_edges = DefaultEdges
    /\ DG_cache = <<>>
    /\ cache_valid = FALSE
    /\ last_cache_time = 0
    /\ now = Epoch
    /\ configurations = [legacy |-> [nodes |-> DefaultNodes, edges |-> LegacyEdges]]
    /\ fiber_status_log = <<>>
    /\ ret = [op |-> "__init__"]
    /\ storage = TRUE
    /\ plants = PredefinedPlants
    /\ active_plant_id = "default"
    /\ captured = <<>>
    /\ graph_lock = 0
    /\ pc = [t \in Threads |-> Idle]
    /\ search = NoSearch

NextFault ==
    \/ load_configuration("legacy")
    \/ \E s \in {"CT21-CT22", "SET-CT21"}, f \in {1, 2}, st \in {"ok", "averiado"} :
            update_fiber_status(s, f, st)
    \/ restore_segment_fibers("CT21-CT22")
    \/ get_logical_graph
    \/ \E ct \in {"SET", "CT22"} : check_ct_connectivity(ct)
    \/ check_ring_integrity
    \/ init_graph_default

SpecFault == InitFault /\ [][NextFault]_vars

(* SpecCut: a model constructed without a storage, so that no change is    *)
(* logged; the strands that carry traffic on two segments of circuit C2    *)
(* fail and are repaired one by one.                                       *)

InitNoStorage ==
    /\ G_nodes = DefaultNodes
    /\ G_edges = DefaultEdges
    /\ DG_cache = <<>>
    /\ cache_valid = FALSE
    /\ last_cache_time = 0
    /\ now = Epoch
    /\ configurations = <<>>
    /\ fiber_status_log = <<>>
    /\ ret = [op |-> "__init__"]
    /\ storage = FALSE
    /\ plants = <<>>
    /\ active_plant_id = "default"
    /\ captured = <<>>
    /\ graph_lock = 0
    /\ pc = [t \in Threads |-> Idle]
    /\ search = NoSearch

CutSegments == {"CT12-CT19", "CT19-CT20"}

NextCut ==
    \/ \E s \in CutSegments, f \in CommsFibers, st \in {"ok", "averiado"} :
            update_fiber_status(s, f, st)
    \/ get_logical_graph
    \/ check_ct_connectivity("CT20")

SpecCut == InitNoStorage /\ [][NextCut]_vars

(* SpecSearch: _has_path_limited_iterative called on a directed graph that *)
(* is a chain 0 -> 1 -> ... -> ChainEnd, longer than the depth bound, with *)
(* any of a few more edges: back to the start, a short cycle, a self loop, *)
(* a shortcut, and an edge to a node the graph does not hold.              *)

ChainEnd == 32

ExtraEdges ==
    {<<ChainEnd, 0>>, <<5, 2>>, <<3, 3>>, <<0, MAX_DEPTH>>, <<2, ChainEnd + 1>>}

\* the chain with the extra edges, each node's successors in insertion order
ChainGraph(extra) ==
    [n \in 0..ChainEnd |->
        LET chain == IF n < ChainEnd THEN <<n + 1>> ELSE <<>>
            more  == {e[2] : e \in {x \in extra : x[1] = n}} \ Range(chain)
            succ  == chain \o SortSeq([k \in 1..Cardinality(more) |->
                                          CHOOSE m \in more :
                                              Cardinality({y \in more : y < m}) = k - 1],
                                      LAMBDA a, b : a < b)
        IN  [k \in DOMAIN succ |-> [to |-> succ[k], type |-> "ida"]]]

InitSearch ==
    /\ G_nodes = DefaultNodes
    /\ G_edges = DefaultEdges
    /\ DG_cache = <<>>
    /\ cache_valid = FALSE
    /\ last_cache_time = 0
    /\ now = Epoch
    /\ configurations = <<>>
    /\ fiber_status_log = <<>>
    /\ ret = [op |-> "__init__"]
    /\ storage = FALSE
    /\ plants = <<>>
    /\ active_plant_id = "default"
    /\ captured = <<>>
    /\ graph_lock = 0
    /\ pc = [t \in Threads |-> Idle]
    /\ \E extra \in SUBSET ExtraEdges, source \in {0, MAX_DEPTH + 1},
          target \in {MAX_DEPTH, MAX_DEPTH + 1, ChainEnd} :
          search = [NoSearch EXCEPT !.graph = ChainGraph(extra), !.source = source,
                                    !.target = target, !.at = "called"]

NextSearch ==
    \/ search_enter
    \/ search_iterate(MAX_DEPTH)

SpecSearch == InitSearch /\ [][NextSearch]_vars /\ WF_vars(NextSearch)

(* SpecPlants: plants are created and renamed while the active plant has   *)
(* strands failing, is saved, loaded and asked for its status.             *)

PlantInputs == {"Planta 2"}

BaseInputs == {"None", "Sabinar I", "default"}

RenameInputs == {<<"Planta 2", "Planta 3">>}

NextPlants ==
    \/ \E st \in {"ok", "averiado"} : update_fiber_status("CT22-CT21", 1, st)
    \/ restore_segment_fibers("CT22-CT21")
    \/ \E p \in PlantInputs, b \in BaseInputs : create_plant(p, b)
    \/ \E r \in RenameInputs : rename_plant(r[1], r[2])
    \/ save_configuration("test_config")
    \/ load_configuration("test_config")
    \/ check_ct_connectivity("CT22")

SpecPlants == Init /\ [][NextPlants]_vars

(* SpecSnapshot: a caller takes the graph data and holds it while strands  *)
(* of the live graph fail and are restored.                                *)

NextSnapshot ==
    \/ snapshot
    \/ \E f \in {1, 2}, st \in {"ok", "averiado"} : update_fiber_status("CT22-CT21", f, st)
    \/ restore_segment_fibers("CT22-CT21")
    \/ init_graph_default

SpecSnapshot == InitNoStorage /\ [][NextSnapshot]_vars

(* SpecThreads: two threads call the engine of a plant with a storage.     *)

NextThreads ==
    \E t \in Threads :
        \/ \E f \in {1, 2} : update_fiber_status_enter(t, "CT22-CT21", f, "averiado")
        \/ update_fiber_status_write(t)
        \/ update_fiber_status_log(t)
        \/ restore_segment_fibers_enter(t, "CT22-CT21")
        \/ restore_segment_fibers_step(t)
        \/ init_graph_clear(t)
        \/ init_graph_fill(t)
        \/ get_logical_graph_enter(t)
        \/ get_logical_graph_build(t)
        \/ save_configuration_prepare(t, "test_config")
        \/ save_configuration_save(t)

SpecThreads == Init /\ [][NextThreads]_vars

(* SpecMalformed: the configurations table already holds two              *)
(* configurations that this engine did not write: in one the edge of       *)
(* CT21-CT22 has no 'source', in the other the node CT22 has no 'id'.      *)

\* a dict without one of its keys
without(d, key) == [k \in (DOMAIN d) \ {key} |-> d[k]]

MalformedConfigurations ==
    [sin_source |->
        [nodes |-> DefaultNodes,
         edges |-> [i \in DOMAIN DefaultEdges |->
                       IF DefaultEdges[i].id = "CT21-CT22"
                       THEN without(DefaultEdges[i], "source") ELSE DefaultEdges[i]]],
     sin_id |->
        [nodes |-> [i \in DOMAIN DefaultNodes |->
                       IF DefaultNodes[i].id = "CT22"
                       THEN without(DefaultNodes[i], "id") ELSE DefaultNodes[i]],
         edges |-> DefaultEdges]]

InitMalformed ==
    /\ G_nodes = DefaultNodes
    /\ G_edges = DefaultEdges
    /\ DG_cache = <<>>
    /\ cache_valid = FALSE
    /\ last_cache_time = 0
    /\ now = Epoch
    /\ configurations = MalformedConfigurations
    /\ fiber_status_log = <<>>
    /\ ret = [op |-> "__init__"]
    /\ storage = TRUE
    /\ plants = PredefinedPlants
    /\ active_plant_id = "default"
    /\ captured = <<>>
    /\ graph_lock = 0
    /\ pc = [t \in Threads |-> Idle]
    /\ search = NoSearch

NextMalformed ==
    \/ \E name \in {"sin_source", "sin_id", "inexistente", "test_config"} :
            load_configuration(name)
    \/ save_configuration("test_config")
    \/ \E st \in {"ok", "averiado"} : update_fiber_status("SET-CT21", 1, st)
    \/ get_logical_graph
    \/ init_graph_default

SpecMalformed == InitMalformed /\ [][NextMalformed]_vars

(* SpecPartial: the configurations table already holds a configuration     *)
(* that this engine did not write, in which the strand map of CT21-CT22    *)
(* has no entry for the forward strands 1 and 2 and the reserve 5.         *)

PartialSegment == "CT21-CT22"

\* the strand indices the stored map of PartialSegment lacks
MissingStrands == {1, 2, 5}

PartialEdges ==
    [i \in DOMAIN DefaultEdges |->
        IF DefaultEdges[i].id = PartialSegment
        THEN [DefaultEdges[i] EXCEPT
                 !.fibers = FibersDict([k \in {str(n) : n \in (1..DEFAULT_TOTAL_FIBRAS)
                                                          \ MissingStrands} |-> "ok"])]
        ELSE DefaultEdges[i]]

InitPartial ==
    /\ G_nodes = DefaultNodes
    /\ G_edges = DefaultEdges
    /\ DG_cache = <<>>
    /\ cache_valid = FALSE
    /\ last_cache_time = 0
    /\ now = Epoch
    /\ configurations = [parcial |-> [nodes |-> DefaultNodes, edges |-> PartialEdges]]
    /\ fiber_status_log = <<>>
    /\ ret = [op |-> "__init__"]
    /\ storage = TRUE
    /\ plants = PredefinedPlants
    /\ active_plant_id = "default"
    /\ captured = <<>>
    /\ graph_lock = 0
    /\ pc = [t \in Threads |-> Idle]
    /\ search = NoSearch

NextPartial ==
    \/ load_configuration("parcial")
    \/ \E f \in {1, 3}, st \in {"ok", "averiado"} : update_fiber_status(PartialSegment, f, st)
    \/ get_logical_graph
    \/ get_network_status
    \/ fiber_statistics
    \/ init_graph_default

SpecPartial == InitPartial /\ [][NextPartial]_vars

(* SpecBuild: the logical graph built for a model without a storage in     *)
(* which the segment CT12-CT19 has any of its strands 1 to 4, the reserve  *)
(* 5 and the video strand 13 faulty; reserves and video strands go on      *)
(* changing.                                                               *)

BuildSegment == "CT12-CT19"

\* the strands of BuildSegment that are ok or faulty
BuildFibers == CommsFibers \cup {5, 13}

InitBuild ==
    /\ G_nodes = DefaultNodes
    /\ \E faulty \in SUBSET BuildFibers :
          G_edges = [i \in DOMAIN DefaultEdges |->
                        IF DefaultEdges[i].id = BuildSegment
                        THEN [DefaultEdges[i] EXCEPT
                                 !.fibers.map = [k \in DOMAIN @ |->
                                                    IF k \in {str(f) : f \in faulty}
                                                    THEN "averiado" ELSE "ok"]]
                        ELSE DefaultEdges[i]]
    /\ DG_cache = <<>>
    /\ cache_valid = FALSE
    /\ last_cache_time = 0
    /\ now = Epoch
    /\ configurations = <<>>
    /\ fiber_status_log = <<>>
    /\ ret = [op |-> "__init__"]
    /\ storage = FALSE
    /\ plants = <<>>
    /\ active_plant_id = "default"
    /\ captured = <<>>
    /\ graph_lock = 0
    /\ pc = [t \in Threads |-> Idle]
    /\ search = NoSearch

NextBuild ==
    \/ get_logical_graph
    \/ \E f \in {5, 13}, st \in {"ok", "averiado"} : update_fiber_status(BuildSegment, f, st)

SpecBuild == InitBuild /\ [][NextBuild]_vars

(* SpecRing: the report and the ring map of a model without a storage in   *)
(* which one or two segments have lost a direction or both (any of the     *)
(* segments that leave the center, and a second one of those or inside a   *)
(* circuit), or in which all segments that leave the center, all others,   *)
(* or all segments have.                                                   *)

\* the segment between the center and the first node of a circuit
first_segment(c) == SegName("SET", DEFAULT_CIRCUITOS[c][1])

FirstSegments == {first_segment(c) : c \in Range(DEFAULT_RING_ORDER)}

InnerSegments == {"CT21-CT22", "CT19-CT20", "CT09-CT08"}

AllSegments == {DefaultEdges[i].id : i \in DOMAIN DefaultEdges}

\* the strands a cut takes: the forward ones, the return ones, or both
CutModes == {Range(DEFAULT_FIBRAS_COMMS_IDA), Range(DEFAULT_FIBRAS_COMMS_VUELTA),
             CommsFibers}

NoCut == <<"", {}>>

\* the edges of the default topology after the cuts (segment, strands)
edges_cut(cuts) ==
    [i \in DOMAIN DefaultEdges |->
        LET lost == UNION {c[2] : c \in {c \in cuts : c[1] = DefaultEdges[i].id}}
        IN  [DefaultEdges[i] EXCEPT
                !.fibers.map = [k \in DOMAIN @ |->
                                   IF k \in {str(f) : f \in lost}
                                   THEN "averiado" ELSE "ok"]]]

InitRing ==
    /\ G_nodes = DefaultNodes
    /\ \/ \E a \in (FirstSegments \X CutModes) \cup {NoCut},
             b \in ((FirstSegments \cup InnerSegments) \X CutModes) \cup {NoCut} :
             G_edges = edges_cut({a, b})
       \/ \E many \in {FirstSegments, AllSegments \ FirstSegments, AllSegments},
             mode \in CutModes :
             G_edges = edges_cut(many \X {mode})
    /\ DG_cache = <<>>
    /\ cache_valid = FALSE
    /\ last_cache_time = 0
    /\ now = Epoch
    /\ configurations = <<>>
    /\ fiber_status_log = <<>>
    /\ ret = [op |-> "__init__"]
    /\ storage = FALSE
    /\ plants = <<>>
    /\ active_plant_id = "default"
    /\ captured = <<>>
    /\ graph_lock = 0
    /\ pc = [t \in Threads |-> Idle]
    /\ search = NoSearch

NextRing ==
    \/ get_logical_graph
    \/ check_ring_integrity
    \/ get_network_status

SpecRing == InitRing /\ [][NextRing]_vars

(* SpecDepth: _has_path_limited_iterative called with a small depth bound  *)
(* on the graphs built from any of six edges, added in either order: two   *)
(* ways from node 0 to node 3, one of one edge more than the other, and an *)
(* edge from node 3 on to node 5.                                          *)

DepthEdges == <<<<0, 4>>, <<0, 1>>, <<1, 2>>, <<2, 3>>, <<4, 3>>, <<3, 5>>>>

DepthBounds == {2, 3}

\* DG.add_edge for the chosen edges of the list, in list order
graph_of(list, chosen) ==
    LET RECURSIVE added(_, _)
        added(DG, k) ==
            IF k > Len(list) THEN DG
            ELSE IF k \in chosen
            THEN added(DG_add_edge(DG, list[k][1], list[k][2], "ida"), k + 1)
            ELSE added(DG, k + 1)
    IN  added(<<>>, 1)

\* the list back to front
reversed(list) == [k \in DOMAIN list |-> list[Len(list) + 1 - k]]

InitDepth ==
    /\ G_nodes = DefaultNodes
    /\ G_edges = DefaultEdges
    /\ DG_cache = <<>>
    /\ cache_valid = FALSE
    /\ last_cache_time = 0
    /\ now = Epoch
    /\ configurations = <<>>
    /\ fiber_status_log = <<>>
    /\ ret = [op |-> "__init__"]
    /\ storage = FALSE
    /\ plants = <<>>
    /\ active_plant_id = "default"
    /\ captured = <<>>
    /\ graph_lock = 0
    /\ pc = [t \in Threads |-> Idle]
    /\ \E chosen \in SUBSET DOMAIN DepthEdges, list \in {DepthEdges, reversed(DepthEdges)} :
          search = [NoSearch EXCEPT !.graph = graph_of(list, chosen)]

\* a call _has_path_limited_iterative(graph, source, target, max_depth)
has_path_call(source, target, max_depth) ==
    /\ ret' = [op |-> "_has_path_limited_iterative", source |-> source,
               target |-> target, max_depth |-> max_depth,
               value |-> has_path_limited_iterative(search.graph, source, target,
                                                    max_depth)]
    /\ UNCHANGED <<G_nodes, G_edges, DG_cache, cache_valid, last_cache_time, now,
                   configurations, fiber_status_log, storage_vars, captured,
                   thread_vars, search>>

NextDepth ==
    \E target \in {0, 3, 5}, max_depth \in DepthBounds : has_path_call(0, target, max_depth)

SpecDepth == InitDepth /\ [][NextDepth]_vars

(* SpecAudit: a model with a storage whose strands change only through     *)
(* update_fiber_status and restore_segment_fibers.                         *)

AuditSegment == "CT21-CT22"

NextAudit ==
    \/ \E f \in {1, 2, 5}, st \in {"ok", "averiado"} :
            update_fiber_status(AuditSegment, f, st)
    \/ restore_segment_fibers(AuditSegment)
    \/ get_logical_graph
    \/ \E ct \in {"CT21", "CT22"} : check_ct_connectivity(ct)

SpecAudit == Init /\ [][NextAudit]_vars

(* SpecReport: one thread asks for status reports of a model without a     *)
(* storage while another changes and restores strands of a segment.        *)

ReportSegment == "CT21-CT22"

NextReport ==
    \/ get_network_status_enter(1)
    \/ get_network_status_check(1)
    \/ get_network_status_segments(1)
    \/ get_network_status_return(1)
    \/ \E f \in {1, 2}, st \in {"ok", "averiado"} :
            update_fiber_status_enter(2, ReportSegment, f, st)
    \/ update_fiber_status_write(2)
    \/ restore_segment_fibers_enter(2, ReportSegment)
    \/ restore_segment_fibers_step(2)

SpecReport == InitNoStorage /\ [][NextReport]_vars

(* SpecAdjacency: the logical graph has been built and cached, and the     *)
(* object get_logical_graph hands out has since been damaged: the          *)
(* adjacency of one node names a node the graph does not hold, so that     *)
(* fetching the successors of that node raises.                            *)

GhostNode == "NODO_FANTASMA"

\* the logical graph with the adjacency of node n naming the ghost node
damaged(DG, n) == [DG EXCEPT ![n] = Append(@, [to |-> GhostNode, type |-> "fiber"])]

\* the adjacency of some node names the ghost node
is_damaged(DG) == \E n \in DOMAIN DG : GhostNode \in Range(DG_successors(DG, n))

InitAdjacency ==
    /\ G_nodes = DefaultNodes
    /\ G_edges = DefaultEdges
    /\ \E n \in NodeIds(DefaultNodes) :
          DG_cache = <<damaged(build_directed_logical_graph(DefaultNodes, DefaultEdges), n)>>
    /\ cache_valid = TRUE
    /\ last_cache_time = Epoch
    /\ now = Epoch
    /\ configurations = <<>>
    /\ fiber_status_log = <<>>
    /\ ret = [op |-> "__init__"]
    /\ storage = FALSE
    /\ plants = <<>>
    /\ active_plant_id = "default"
    /\ captured = <<>>
    /\ graph_lock = 0
    /\ pc = [t \in Threads |-> Idle]
    /\ search = NoSearch

NextAdjacency ==
    \/ get_network_status
    \/ \E ct \in {"CT22", "CT12", "CT01"} : check_ct_connectivity(ct)
    \/ \E st \in {"ok", "averiado"} : update_fiber_status("CT22-CT21", 1, st)

SpecAdjacency == InitAdjacency /\ [][NextAdjacency]_vars

(* SpecAdvisor: a model without a storage whose segment CT12-CT19 has had  *)
(* strands fail: forward strands 1 and 2, return strand 3, video strand 13 *)
(* and the reserves 5 and 6 each ok or faulty, the reserves 7 to 12        *)
(* faulty. The status report is asked for while strands change.            *)

AdvisorSegment == "CT12-CT19"

\* the strands of AdvisorSegment that are ok or faulty
AdvisorFibers == {1, 2, 3, 5, 6, 13}

\* the strand maps of AdvisorSegment
AdvisorMaps ==
    LET varied == {str(f) : f \in AdvisorFibers}
        lost   == {str(f) : f \in 7..12}
    IN  {[k \in DOMAIN get_initial_fiber_status.map |->
             IF k \in varied THEN m[k] ELSE IF k \in lost THEN "averiado" ELSE "ok"] :
         m \in [varied -> {"ok", "averiado"}]}

InitAdvisor ==
    /\ G_nodes = DefaultNodes
    /\ \E m \in AdvisorMaps :
          G_edges = [i \in DOMAIN DefaultEdges |->
                        IF DefaultEdges[i].id = AdvisorSegment
                        THEN [DefaultEdges[i] EXCEPT !.fibers = FibersDict(m)]
                        ELSE DefaultEdges[i]]
    /\ DG_cache = <<>>
    /\ cache_valid = FALSE
    /\ last_cache_time = 0
    /\ now = Epoch
    /\ configurations = <<>>
    /\ fiber_status_log = <<>>
    /\ ret = [op |-> "__init__"]
    /\ storage = FALSE
    /\ plants = <<>>
    /\ active_plant_id = "default"
    /\ captured = <<>>
    /\ graph_lock = 0
    /\ pc = [t \in Threads |-> Idle]
    /\ search = NoSearch

NextAdvisor ==
    \/ \E f \in {1, 3, 5, 13}, st \in {"ok", "averiado"} :
            update_fiber_status(AdvisorSegment, f, st)
    \/ get_network_status

SpecAdvisor == InitAdvisor /\ [][NextAdvisor]_vars

-----------------------------------------------------------------------------
(* Properties *)

\* the field nodes of the default topology
FieldNodes == UNION {Range(DEFAULT_CIRCUITOS[c]) : c \in Range(CIRCUIT_IDS)}

\* some strand of some segment is 'averiado'
SomeStrandFaulty ==
    \E i \in DOMAIN G_edges :
        /\ G_edges[i].fibers.kind = "dict"
        /\ \E k \in DOMAIN G_edges[i].fibers.map : G_edges[i].fibers.map[k] = "averiado"

(* C1: check_ct_connectivity('SET') returns 'conectado' in every state,    *)
(* whatever the strand states and the nodes of the physical graph: the     *)
(* call just made returned it, and a call made now would return it.        *)
C1_CenterAlwaysConnected ==
    /\ check_ct_connectivity_result("SET").status = "conectado"
    /\ (ret.op = "check_ct_connectivity" /\ ret.target_ct = "SET")
          => ret.value = "conectado"

\* C1 witness: the call answered for SET while the physical graph holds no SET
C1_Witness ==
    /\ ret.op = "check_ct_connectivity"
    /\ ret.target_ct = "SET"
    /\ ret.value = "conectado"
    /\ ~G_has_node("SET")

(* C2: while the physical graph is the default topology with every strand  *)
(* 'ok', each of the 22 field nodes is reported 'conectado' and the ring   *)
(* map has its 8 entries all true.                                         *)
C2_DefaultTopologyHealthy ==
    (G_nodes = DefaultNodes /\ G_edges = DefaultEdges) =>
        LET call == logical_graph_call
            ring == ring_integrity(call.cache[1])
        IN  /\ ~call.raised
            /\ Cardinality(FieldNodes) = 22
            /\ \A ct \in FieldNodes :
                  G_has_node(ct) /\ ct_status(call.cache[1], ct) = "conectado"
            /\ Cardinality(DOMAIN ring) = 8
            /\ \A k \in DOMAIN ring : ring[k]
            /\ (ret.op = "check_ct_connectivity" /\ ret.target_ct \in FieldNodes)
                  => ret.value = "conectado"
            /\ ret.op = "_check_ring_integrity"
                  => (Cardinality(DOMAIN ret.value) = 8 /\ \A k \in DOMAIN ret.value : ret.value[k])

\* C2 witness: the ring map was computed on the default topology, after a restore
C2_Witness ==
    /\ G_nodes = DefaultNodes
    /\ G_edges = DefaultEdges
    /\ fiber_status_log # <<>>
    /\ ret.op = "_check_ring_integrity"
    /\ Cardinality(DOMAIN ret.value) = 8

(* C3: for a node other than SET, check_ct_connectivity returns 'error'    *)
(* when the physical graph does not hold the node; else it returns         *)
(* 'conectado' when SET reaches the node and the node reaches SET, both    *)
(* within MAX_DEPTH steps of the logical graph, and 'aislado' otherwise.   *)
C3_StatusByReachability ==
    (ret.op = "check_ct_connectivity" /\ ret.target_ct # "SET") =>
        IF ~G_has_node(ret.target_ct)
        THEN ret.value = "error"
        ELSE /\ cache_valid
             /\ DG_cache # <<>>
             /\ LET to_ct   == has_path_limited_iterative(DG_cache[1], "SET",
                                                          ret.target_ct, MAX_DEPTH)
                    from_ct == has_path_limited_iterative(DG_cache[1], ret.target_ct,
                                                          "SET", MAX_DEPTH)
                IN  ret.value = IF to_ct /\ from_ct THEN "conectado" ELSE "aislado"

\* C3 witness: a node of the graph that SET no longer reaches was reported 'aislado'
C3_Witness ==
    /\ ret.op = "check_ct_connectivity"
    /\ ret.target_ct = "CT22"
    /\ ret.value = "aislado"
    /\ ~has_path_limited_iterative(DG_cache[1], "SET", "CT22", MAX_DEPTH)
    /\ has_path_limited_iterative(DG_cache[1], "CT22", "SET", MAX_DEPTH)

(* C4: an update_fiber_status call with a state that is neither 'ok' nor   *)
(* 'averiado', with a segment no edge matches, or with a strand index the  *)
(* strand map of the segment does not hold, returns failure and leaves the *)
(* strand maps, the cache flag, the cached graph and the audit log as they *)
(* were.                                                                   *)
C4_RejectedUpdateChangesNothing ==
    [][ret'.op = "update_fiber_status" =>
        \A s \in SegmentInputs, f \in FiberInputs, st \in StatusInputs :
          LET rejected ==
                  \/ st \notin {"ok", "averiado"}
                  \/ find_segment(s) = 0
                  \/ str(f) \notin DOMAIN G_edges[find_segment(s)].fibers.map
          IN  (update_fiber_status(s, f, st) /\ rejected) =>
                  /\ ~ret'.ok
                  /\ UNCHANGED <<G_edges, cache_valid, DG_cache, fiber_status_log>>]_vars

\* C4 witness: a strand index out of the map was rejected while a cache was valid
C4_Witness ==
    /\ ret.op = "update_fiber_status"
    /\ ~ret.ok
    /\ ret.message = "fibra no encontrada"
    /\ cache_valid
    /\ DG_cache # <<>>
    /\ fiber_status_log # <<>>

(* C5: an update_fiber_status call that writes to a strand the state the   *)
(* strand already has returns success and changes neither the strand maps, *)
(* nor the cache flag, nor the cached graph, nor the audit log; so the     *)
(* same update made twice leaves the state the first one left.             *)
C5_SameStateWriteIsNoOp ==
    [][ret'.op = "update_fiber_status" =>
        \A s \in SegmentInputs, f \in FiberInputs, st \in StatusInputs :
          LET i == find_segment(s)
              same == /\ st \in {"ok", "averiado"}
                      /\ i # 0
                      /\ str(f) \in DOMAIN G_edges[i].fibers.map
                      /\ G_edges[i].fibers.map[str(f)] = st
          IN  (update_fiber_status(s, f, st) /\ same) =>
                  /\ ret'.ok
                  /\ UNCHANGED <<G_edges, cache_valid, DG_cache, fiber_status_log>>]_vars

\* C5 witness: a faulty strand was written 'averiado' again while a cache was valid
C5_Witness ==
    /\ ret.op = "update_fiber_status"
    /\ ret.ok
    /\ ret.message = "ya estaba"
    /\ cache_valid
    /\ DG_cache # <<>>
    /\ SomeStrandFaulty

(* C6: right after restore_segment_fibers succeeded on a segment, a second *)
(* call on the same segment reports 0 strands changed, changes no strand   *)
(* and leaves the cache flag and the cached graph as they are.             *)
C6_RestoreTwice ==
    (ret.op = "restore_segment_fibers" /\ ret.ok) =>
        LET again == restore_segment_fibers_result(ret.segment_id)
        IN  /\ again.ok
            /\ again.fibers_changed = 0
            /\ again.edges = G_edges
            /\ again.valid = cache_valid
            /\ again.cache = DG_cache

\* C6 witness: a restore has just repaired two faulty strands and dropped the cache
C6_Witness ==
    /\ ret.op = "restore_segment_fibers"
    /\ ret.ok
    /\ ret.fibers_changed = 2
    /\ ~cache_valid
    /\ ~SomeStrandFaulty

C8_SecondCallReusesCache ==
    [][(/\ get_logical_graph
        /\ ret.op = "get_logical_graph"
        /\ cache_valid
        /\ DG_cache # <<>>
        /\ now - last_cache_time < CACHE_EXPIRATION_TIME)
          => (/\ ~ret'.rebuilt
              /\ ret'.value = DG_cache
              /\ UNCHANGED <<DG_cache, cache_valid, last_cache_time>>)]_vars

\* C8 witness: a second call reused a cache whose age is positive
C8_Witness ==
    /\ ret.op = "get_logical_graph"
    /\ ret.was_valid
    /\ ~ret.rebuilt
    /\ ret.age > 0
    /\ ret.age < CACHE_EXPIRATION_TIME

(* C9 as amended: get_logical_graph rebuilds exactly when the cache is     *)
(* invalid or its age is more than the window of 10; a valid cache of age  *)
(* 10 or less, 10 included, is returned as it is.                          *)
C9_RebuildPastWindow ==
    [][get_logical_graph =>
          /\ ret'.rebuilt <=> (\/ ~cache_valid
                               \/ DG_cache = <<>>
                               \/ now - last_cache_time > CACHE_EXPIRATION_TIME)
          /\ (cache_valid /\ DG_cache # <<>>
                /\ now - last_cache_time = CACHE_EXPIRATION_TIME)
                => (~ret'.rebuilt /\ DG_cache' = DG_cache)]_vars

\* C9 witness: a valid cache older than the window was rebuilt
C9_Witness ==
    /\ ret.op = "get_logical_graph"
    /\ ret.was_valid
    /\ ret.rebuilt
    /\ ret.age > CACHE_EXPIRATION_TIME

(* C9 as stated: get_logical_graph rebuilds whenever the age of the cache  *)
(* is 10 or more. A valid cache of age 10 is reused.                       *)
C9_AsStated ==
    [][(get_logical_graph /\ now - last_cache_time >= CACHE_EXPIRATION_TIME)
          => ret'.rebuilt]_vars

(* C10 as stated: the map _check_ring_integrity returns has as many        *)
(* entries as the ring order has circuits. When the build of the logical   *)
(* graph raises, the map returned is empty.                                *)
C10_AsStated ==
    ret.op = "_check_ring_integrity"
        => Cardinality(DOMAIN ret.value) = Len(DEFAULT_RING_ORDER)

\* the edges of G that join two consecutive field nodes of one circuit
ChainSegments ==
    {i \in DOMAIN G_edges : G_edges[i].source # "SET" /\ G_edges[i].target # "SET"}

\* the field nodes that come after edge i in the chain of its circuit
Downstream(i) ==
    LET cts == circuitos_get(G_edges[i].circuit)
        ends == {G_edges[i].source, G_edges[i].target}
    IN  {cts[j] : j \in {j \in DOMAIN cts : \E k \in 1..(j - 1) : cts[k] \in ends}}

\* every strand of edge i that carries traffic is faulty, every other strand of G is ok
OnlyCut(i) ==
    \A j \in DOMAIN G_edges :
        /\ G_edges[j].fibers.kind = "dict"
        /\ \A k \in DOMAIN G_edges[j].fibers.map :
              G_edges[j].fibers.map[k] =
                  IF j = i /\ k \in {str(f) : f \in CommsFibers} THEN "averiado" ELSE "ok"

(* C11: when all forward and return strands of one segment between two     *)
(* consecutive field nodes of a circuit are faulty and every other strand  *)
(* is ok, the field nodes after the segment in the chain of the circuit    *)
(* are 'aislado' and every other field node is 'conectado'.                *)
C11_CutIsolatesDownstream ==
    \A i \in ChainSegments :
        (G_nodes = DefaultNodes /\ OnlyCut(i)) =>
            LET call == logical_graph_call
                expected(ct) == IF ct \in Downstream(i) THEN "aislado" ELSE "conectado"
            IN  /\ ~call.raised
                /\ Downstream(i) # {}
                /\ \A ct \in FieldNodes :
                      G_has_node(ct) /\ ct_status(call.cache[1], ct) = expected(ct)
                /\ ret.op = "check_ct_connectivity" => ret.value = expected(ret.target_ct)

\* C11 witness: CT12-CT19 is cut and CT20, two segments further, was reported 'aislado'
C11_Witness ==
    /\ \E i \in ChainSegments : G_edges[i].id = "CT12-CT19" /\ OnlyCut(i)
    /\ ret.op = "check_ct_connectivity"
    /\ ret.target_ct = "CT20"
    /\ ret.value = "aislado"

\* the reserve strands of a strand map that are ok
OkReserves(fibers) ==
    {fn \in Range(DEFAULT_FIBRAS_RESERVA) : dict_get(fibers, str(fn)) = "ok"}

\* the k lowest numbers of a set
Lowest(k, pool) == {x \in pool : Cardinality({y \in pool : y < x}) < k}

\* the strands of a role that are faulty in a strand map
Faulty(fibers, role) == {fn \in Range(role) : dict_get(fibers, str(fn)) = "averiado"}

\* a finding proposes exactly the k lowest reserves of the pool, in ascending order
FirstFit(finding, k, pool) ==
    IF k = 0 THEN finding.sug_res = <<>> /\ ~finding.insuficiente
    ELSE IF Cardinality(pool) >= k
    THEN /\ ~finding.insuficiente
         /\ Len(finding.sug_res) = k
         /\ Range(finding.sug_res) = Lowest(k, pool)
         /\ \A a, b \in DOMAIN finding.sug_res :
               a < b => finding.sug_res[a] < finding.sug_res[b]
    ELSE finding.insuficiente /\ finding.sug_res = <<>>

(* C12 as stated: in the findings of every segment of a status report the  *)
(* reserves proposed to the forward direction, to the return direction and *)
(* to the video strands are pairwise disjoint sets of ok reserves, so no   *)
(* more reserves are proposed than the segment has ok. The video strands   *)
(* are proposed the reserves the return direction was proposed.            *)
C12_AsStated ==
    ret.op = "get_network_status" =>
        \A id \in DOMAIN ret.value.suggestions.segmentos :
            LET f      == ret.value.suggestions.segmentos[id]
                fibers == ret.value.segment_statuses[id].fibers
                ida    == Range(f.ida.sug_res)
                vuelta == Range(f.vuelta.sug_res)
                cctv   == Range(f.cctv.sug_res)
            IN  /\ (ida \cup vuelta \cup cctv) \subseteq OkReserves(fibers)
                /\ ida \cap vuelta = {}
                /\ ida \cap cctv = {}
                /\ vuelta \cap cctv = {}
                /\ Len(f.ida.sug_res) + Len(f.vuelta.sug_res) + Len(f.cctv.sug_res)
                      <= Cardinality(OkReserves(fibers))

(* C13: in the findings of every segment of a status report, the forward   *)
(* direction with k faulty strands is proposed the k lowest ok reserves    *)
(* when there are k, and else warned of insufficiency with no proposal;    *)
(* the return direction is then treated the same way with the ok reserves  *)
(* the forward direction was not proposed.                                 *)
C13_SharedPoolFirstFit ==
    ret.op = "get_network_status" =>
        \A id \in DOMAIN ret.value.suggestions.segmentos :
            LET f      == ret.value.suggestions.segmentos[id]
                fibers == ret.value.segment_statuses[id].fibers
                pool   == OkReserves(fibers)
            IN  /\ FirstFit(f.ida, Cardinality(Faulty(fibers, DEFAULT_FIBRAS_COMMS_IDA)),
                            pool)
                /\ FirstFit(f.vuelta,
                            Cardinality(Faulty(fibers, DEFAULT_FIBRAS_COMMS_VUELTA)),
                            pool \ Range(f.ida.sug_res))

(* C13 witness: both directions have faulty strands and both are proposed  *)
(* reserves, the return direction a higher one                             *)
C13_Witness ==
    /\ ret.op = "get_network_status"
    /\ AdvisorSegment \in DOMAIN ret.value.suggestions.segmentos
    /\ ret.value.suggestions.segmentos[AdvisorSegment].ida.sug_res = <<5>>
    /\ ret.value.suggestions.segmentos[AdvisorSegment].vuelta.sug_res = <<6>>

\* the nodes within k hops of the nodes S
RECURSIVE Within(_, _, _)
Within(graph, S, k) ==
    IF k = 0 THEN S
    ELSE LET more == S \cup UNION {Range(DG_successors(graph, n)) :
                                      n \in S \cap DOMAIN graph}
         IN  IF Evaluated(more) THEN Within(graph, more, k - 1) ELSE {}

\* the call has returned
SearchDone == search.at \in {"True", "False"}

\* what the search has done so far is within the limits of the loop
SearchBounded ==
    search.at # "idle" =>
        /\ \A n \in DOMAIN search.pushes : search.pushes[n] <= 1
        /\ \A d \in search.expanded : d < MAX_DEPTH
        /\ \A k \in DOMAIN search.stack : search.stack[k][2] <= MAX_DEPTH
        /\ Len(search.stack) <= Cardinality(DOMAIN search.graph) + 1
        /\ search.at = "True" =>
              search.target \in Within(search.graph, {search.source}, MAX_DEPTH)
        /\ SearchDone =>
              (search.at = "True") = has_path_limited_iterative(search.graph, search.source,
                                                               search.target, MAX_DEPTH)

(* C14: the reachability test ends on every graph drawn, cyclic ones and   *)
(* ones with an edge to a missing node included: while it runs no node is  *)
(* pushed twice, no node at depth 30 is expanded and the stack holds no    *)
(* more entries than the graph has nodes; it answers true only for a       *)
(* target within 30 hops, so false for one further away; and it returns.   *)
C14_SearchTerminates == [](SearchBounded) /\ <>(SearchDone)

(* C14 witness: on a graph whose last node leads back to the first, the    *)
(* search for a target 31 hops away has returned False                     *)
C14_Witness ==
    /\ search.at = "False"
    /\ search.source = 0
    /\ search.target = MAX_DEPTH + 1
    /\ 0 \in Range(DG_successors(search.graph, ChainEnd))
    /\ search.target \in Within(search.graph, {0}, MAX_DEPTH + 1)
    /\ search.target \notin Within(search.graph, {0}, MAX_DEPTH)

\* one of the two searches check_ct_connectivity makes for a node ends in the except clause
MeetsFault(DG, ct) ==
    \/ has_path_search(DG, "SET", ct, MAX_DEPTH) = "except"
    \/ has_path_search(DG, ct, "SET", MAX_DEPTH) = "except"

StrandStates(edges) ==
    [id \in {edges[i].id : i \in DOMAIN edges} |->
        (edges[CHOOSE i \in DOMAIN edges : edges[i].id = id]).fibers]

(* C16 as stated: a step that changes a strand state of the in-memory      *)
(* topology is a successful update_fiber_status or restore_segment_fibers, *)
(* or a (re)initialization by a snapshot load; create_plant, rename_plant, *)
(* save_configuration and a status query leave every strand as it was.     *)
(* create_plant without a base plant, or from 'Sabinar I', resets them.    *)
C16_AsStated ==
    [][StrandStates(G_edges') # StrandStates(G_edges) =>
          /\ ret'.op \in {"update_fiber_status", "restore_segment_fibers",
                          "load_configuration"}
          /\ ret'.ok]_vars

(* C17 as stated: the strand states a held snapshot records are those of   *)
(* the moment it was captured, whatever update_fiber_status and            *)
(* restore_segment_fibers have done to the live graph since. The snapshot  *)
(* holds the live strand maps and shows every later write.                 *)
C17_AsStated ==
    captured # <<>> =>
        StrandStates(captured[1].edges) = StrandStates(captured[1].at_capture)

\* the calls to the persistence collaborator a thread can be at
PersistenceCalls == {"log_fiber_status_change", "save_config"}

(* C18 as stated: no thread that is at a call of the persistence           *)
(* collaborator holds the topology lock. The audit call of                 *)
(* update_fiber_status is made inside the locked block.                    *)
C18_AsStated ==
    \A t \in Threads : pc[t].at \in PersistenceCalls => graph_lock # t

\* the places of a thread inside a `with self.graph_lock` block
CriticalSections ==
    {"update_fiber_status", "log_fiber_status_change", "restore_loop", "init_graph_fill",
     "get_logical_graph"}

\* a thread is part way through restore_segment_fibers or _init_graph
MidMutation == \E t \in Threads : pc[t].at \in {"restore_loop", "init_graph_fill"}

\* at most one thread is inside a locked block, and it holds the lock
MutualExclusion ==
    \A t1, t2 \in Threads :
        pc[t1].at \in CriticalSections =>
            /\ graph_lock = t1
            /\ pc[t2].at \in CriticalSections => t1 = t2

(* a logical graph that is built, and graph data that is copied, is taken  *)
(* from a physical graph no thread is part way through changing            *)
DerivedFromCompleteState ==
    /\ (DG_cache' # DG_cache /\ DG_cache' # <<>>) =>
          /\ ~MidMutation
          /\ DG_cache'[1] = build_directed_logical_graph(G_nodes, G_edges)
    /\ \A t \in Threads :
          (pc[t] = Idle /\ pc'[t].at = "save_config") =>
              /\ ~MidMutation
              /\ pc'[t].arg.graph_data = [nodes |-> G_nodes, edges |-> G_edges]

\* the cache fields are written by the thread that holds the lock
CacheWrittenUnderLock ==
    (cache_valid' # cache_valid \/ last_cache_time' # last_cache_time
                                \/ DG_cache' # DG_cache) =>
        /\ graph_lock \in Threads
        /\ pc[graph_lock].at \in CriticalSections
        /\ pc'[graph_lock] # pc[graph_lock]

(* C19: in every interleaving of the steps of two threads that update a    *)
(* strand, restore a segment, initialise the graph, copy the graph data    *)
(* and get the logical graph, at most one thread is inside a locked block; *)
(* a logical graph is built, and graph data copied, only while no restore  *)
(* or initialisation is part way through, and equals the derivation from   *)
(* the physical graph of that moment; and the cache flag, timestamp and    *)
(* graph are written only by the thread inside the locked block.           *)
C19_LockedSections ==
    [](MutualExclusion) /\ [][DerivedFromCompleteState /\ CacheWrittenUnderLock]_vars

(* C19 witness: a thread has failed two strands and is half way through    *)
(* restoring them while the other thread waits with no cache to read       *)
C19_Witness ==
    \E t \in Threads :
        /\ pc[t].at = "restore_loop"
        /\ pc[t].arg.fibers_changed = 1
        /\ to_restore(G_edges[pc[t].arg.i]) # {}
        /\ graph_lock = t
        /\ ~cache_valid

(* C20 as stated: a load_configuration or save_configuration that returns  *)
(* failure has left the nodes, the segments and the strand states of the   *)
(* in-memory graph as they were. A load whose data makes _init_graph raise *)
(* returns failure with the graph cleared and partly refilled.             *)
C20_AsStated ==
    [][(ret'.op \in {"load_configuration", "save_configuration"} /\ ~ret'.ok) =>
          /\ G_nodes' = G_nodes
          /\ G_edges' = G_edges]_vars

(* C21: a load_configuration of a name save_configuration wrote, when it   *)
(* succeeds, leaves in memory the nodes, the segments and the strand       *)
(* states the table holds under that name, which are those of the moment   *)
(* of the save whatever update_fiber_status and restore_segment_fibers did *)
(* since; the cache is dropped, so the next logical graph is built from    *)
(* the restored graph.                                                     *)
C21_SaveLoadRoundTrip ==
    [][(ret'.op = "load_configuration" /\ ret'.ok /\ ret'.name = "test_config") =>
          LET saved == configurations[ret'.name]
          IN  /\ Range(G_nodes') = Range(saved.nodes)
              /\ Range(G_edges') = Range(saved.edges)
              /\ StrandStates(G_edges') = StrandStates(saved.edges)
              /\ ~cache_valid'
              /\ DG_cache' = <<>>]_vars

(* C21 witness: a strand failed, the plant was saved, the strand was       *)
(* repaired (two audit events), and the load has brought the fault back    *)
C21_Witness ==
    /\ ret.op = "load_configuration"
    /\ ret.ok
    /\ ret.name = "test_config"
    /\ Len(fiber_status_log) = 2
    /\ fiber_status_log[2].new_status = "ok"
    /\ SomeStrandFaulty

\* the edges with every strand index a strand map lacks read as 'ok'
MissingAsOk(edges) ==
    [i \in DOMAIN edges |->
        IF edges[i].fibers.kind # "dict" THEN edges[i]
        ELSE [edges[i] EXCEPT
                 !.fibers.map = [k \in {str(n) : n \in 1..DEFAULT_TOTAL_FIBRAS} |->
                                    IF k \in DOMAIN edges[i].fibers.map
                                    THEN edges[i].fibers.map[k] ELSE "ok"]]]

\* a strand map of the graph lacks a strand index
SomeStrandMissing ==
    \E i \in DOMAIN G_edges :
        /\ G_edges[i].fibers.kind = "dict"
        /\ \E n \in 1..DEFAULT_TOTAL_FIBRAS : str(n) \notin DOMAIN G_edges[i].fibers.map

(* C22 as stated: when a strand map lacks a strand index, the logical      *)
(* graph in the cache, the findings of the advisor and the statistics are  *)
(* those of the same graph with the missing strands 'ok'. The readers      *)
(* compare fibers.get(n) with 'ok', and a missing strand is not 'ok'.      *)
C22_AsStated ==
    SomeStrandMissing =>
        /\ (cache_valid /\ DG_cache # <<>>) =>
              DG_cache[1] = build_directed_logical_graph(G_nodes, MissingAsOk(G_edges))
        /\ ret.op = "get_fiber_statistics" =>
              ret.value.comm_ok = ret.value.comm_total - Cardinality(
                  {<<i, n>> \in (DOMAIN G_edges) \X CommsFibers :
                      dict_get(G_edges[i].fibers.map, str(n)) = "averiado"})
        /\ ret.op = "get_network_status" =>
              \A id \in DOMAIN ret.value.suggestions.segmentos :
                  ret.value.suggestions.segmentos[id] =
                      segment_findings(edge_of(MissingAsOk(G_edges), id).fibers.map)

(* C23: a get_network_status step leaves the nodes, the segments and every *)
(* strand state as they were, and the stored configurations, the audit log *)
(* and the plants too; of the engine's state only the logical-graph cache  *)
(* changes, and then to the graph built from the unchanged physical graph. *)
C23_StatusReportReadsOnly ==
    [][ret'.op = "get_network_status" =>
          /\ G_nodes' = G_nodes
          /\ G_edges' = G_edges
          /\ UNCHANGED <<configurations, fiber_status_log, storage_vars, captured>>
          /\ DG_cache' # DG_cache =>
                /\ cache_valid'
                /\ DG_cache' = <<build_directed_logical_graph(G_nodes, G_edges)>>]_vars

(* C23 witness: a report with findings for a segment has been made, and    *)
(* the cache it rebuilt is in place                                        *)
C23_Witness ==
    /\ ret.op = "get_network_status"
    /\ DOMAIN ret.value.suggestions.segmentos # {}
    /\ cache_valid
    /\ last_cache_time = now
    /\ SomeStrandFaulty

\* some strand of a role is 'ok' in the strand map of an edge
RoleOk(edge, role) == \E k \in DOMAIN role : dict_get(edge.fibers.map, str(role[k])) = "ok"

(* C24: whenever the cache holds a built graph, for every segment (u, v)   *)
(* of the physical graph the logical graph has the edge u->v exactly if a  *)
(* forward strand (1, 2) of the segment is ok and the edge v->u exactly if *)
(* a return strand (3, 4) is ok, whatever the other direction, the         *)
(* reserves and the video strands are.                                     *)
C24_EdgesByRole ==
    (cache_valid /\ DG_cache # <<>>) =>
        \A i \in DOMAIN G_edges :
            LET u == G_edges[i].source
                v == G_edges[i].target
            IN  /\ <<u, v>> \in DG_edge_set(DG_cache[1])
                      <=> RoleOk(G_edges[i], DEFAULT_FIBRAS_COMMS_IDA)
                /\ <<v, u>> \in DG_edge_set(DG_cache[1])
                      <=> RoleOk(G_edges[i], DEFAULT_FIBRAS_COMMS_VUELTA)

(* C24 witness: a graph was built with both forward strands of the segment *)
(* faulty, a return strand and the reserve ok: it has the return edge only *)
C24_Witness ==
    /\ cache_valid
    /\ DG_cache # <<>>
    /\ ~RoleOk(edge_of(G_edges, BuildSegment), DEFAULT_FIBRAS_COMMS_IDA)
    /\ RoleOk(edge_of(G_edges, BuildSegment), DEFAULT_FIBRAS_COMMS_VUELTA)
    /\ dict_get(edge_of(G_edges, BuildSegment).fibers.map, "5") = "ok"
    /\ <<"CT12", "CT19">> \notin DG_edge_set(DG_cache[1])
    /\ <<"CT19", "CT12">> \in DG_edge_set(DG_cache[1])

\* the nodes a directed path of the edges leads to from node a, a included
Reach(edges, a) ==
    LET RECURSIVE grow(_)
        grow(S) == LET T == S \cup {e[2] : e \in {e \in edges : e[1] \in S}}
                   IN  IF T = S THEN S ELSE grow(T)
    IN  grow({a})

\* the edges of the logical graph that the segments give
SegmentEdges(DG) ==
    UNION {{<<n, DG[n][k].to>> : k \in {k \in 1..Len(DG[n]) : DG[n][k].type # "set_patch"}} :
           n \in DOMAIN DG}

\* the ring-patch edge of the i-th pair of the ring order (with wrap-around)
RingPatch(i) ==
    LET cts_actual    == DEFAULT_CIRCUITOS[DEFAULT_RING_ORDER[i]]
        cts_siguiente == DEFAULT_CIRCUITOS[
                             DEFAULT_RING_ORDER[(i % Len(DEFAULT_RING_ORDER)) + 1]]
    IN  <<cts_actual[Len(cts_actual)], cts_siguiente[1]>>

(* C25: whenever the cache holds a built graph, the graph has the ring     *)
(* patch of the i-th pair exactly if the segment edges together with the   *)
(* patches the graph has for the pairs before it hold no directed path     *)
(* from the last node of the circuit to the first node of the next one.    *)
C25_RingPatchMinimal ==
    (cache_valid /\ DG_cache # <<>>) =>
        LET DG == DG_cache[1]
            earlier(i) == {RingPatch(j) : j \in 1..(i - 1)} \cap DG_edge_set(DG)
        IN  \A i \in DOMAIN DEFAULT_RING_ORDER :
                RingPatch(i) \in DG_edge_set(DG)
                    <=> RingPatch(i)[2] \notin
                            Reach(SegmentEdges(DG) \cup earlier(i), RingPatch(i)[1])

(* C25 witness: a built graph with the patch of one pair and without the   *)
(* patch of another, although a later patch would give the other a path    *)
C25_Witness ==
    /\ cache_valid
    /\ DG_cache # <<>>
    /\ \E i, j \in DOMAIN DEFAULT_RING_ORDER :
          /\ RingPatch(i) \in DG_edge_set(DG_cache[1])
          /\ RingPatch(j) \notin DG_edge_set(DG_cache[1])
    /\ RingPatch(Len(DEFAULT_RING_ORDER)) \in DG_edge_set(DG_cache[1])

\* a directed path from a to b of at most d edges exists in the graph
PathWithin(DG, a, b, d) ==
    LET RECURSIVE hops(_, _)
        hops(S, k) == IF k = 0 THEN S
                      ELSE hops(S \cup {e[2] : e \in {e \in DG_edge_set(DG) : e[1] \in S}},
                                k - 1)
    IN  b \in hops({a}, d)

(* C26: a call of the reachability test returns true exactly if source and *)
(* target are the same node or the graph holds a directed path from source *)
(* to target of at most max_depth edges.                                   *)
C26_AsStated ==
    ret.op = "_has_path_limited_iterative" =>
        (ret.value <=> PathWithin(search.graph, ret.source, ret.target, ret.max_depth))

\* the strand maps the audit events give when replayed from the initial topology
replay(log) ==
    LET RECURSIVE events(_, _)
        events(edges, k) ==
            IF k > Len(log) THEN edges
            ELSE LET e == log[k]
                     applied == [i \in DOMAIN edges |->
                                    IF segment_match(edges[i], e.segment_id)
                                    THEN [edges[i] EXCEPT
                                             !.fibers.map[e.fiber_num] = e.new_status]
                                    ELSE edges[i]]
                 IN  IF Evaluated(applied) THEN events(applied, k + 1) ELSE edges
    IN  events(DefaultEdges, 1)

(* C27 as stated: the strand states of the topology are the ones that      *)
(* replaying the audit log from the initial topology gives. A restore      *)
(* changes strands and writes no event.                                    *)
C27_AsStated ==
    \A i \in DOMAIN G_edges : G_edges[i].fibers = replay(fiber_status_log)[i].fibers

(* C28 as stated: a returned report is a view of one physical state. With  *)
(* every other segment intact, the last node of circuit C1 is 'conectado'  *)
(* in the report exactly if the report's record of the segment that leads  *)
(* to it has an ok forward strand and an ok return strand. A strand that   *)
(* changes between the connectivity loop and get_segment_data breaks this. *)
C28_AsStated ==
    ret.op = "get_network_status" =>
        LET fibers == ret.value.segment_statuses[ReportSegment].fibers
            carries(role) == \E k \in DOMAIN role : dict_get(fibers, str(role[k])) = "ok"
        IN  ret.value.ct_connectivity["CT22"] = "conectado"
                <=> (carries(DEFAULT_FIBRAS_COMMS_IDA) /\ carries(DEFAULT_FIBRAS_COMMS_VUELTA))

(* C29: in the default topology, whatever strands are faulty, every entry  *)
(* of the ring-integrity map is true, the map has an entry for every pair  *)
(* of the ring order, and the advisor reports the ring as complete.        *)
C29_RingAlwaysIntact ==
    /\ ret.op = "_check_ring_integrity" =>
          /\ Cardinality(DOMAIN ret.value) = Len(DEFAULT_RING_ORDER)
          /\ \A k \in DOMAIN ret.value : ret.value[k]
    /\ ret.op = "get_network_status" =>
          /\ ret.value.suggestions.anillo_completo
          /\ ret.value.suggestions.conexiones_interrumpidas = {}

(* C29 witness: the ring map was computed while a circuit had lost its     *)
(* return direction to the center and its patch to the next circuit was    *)
(* needed                                                                  *)
C29_Witness ==
    /\ ret.op = "_check_ring_integrity"
    /\ ret.value # <<>>
    /\ cache_valid
    /\ DG_cache # <<>>
    /\ \E i \in DOMAIN DEFAULT_RING_ORDER : RingPatch(i) \in DG_edge_set(DG_cache[1])
    /\ \E i \in DOMAIN G_edges : ~RoleOk(G_edges[i], DEFAULT_FIBRAS_COMMS_VUELTA)

(* C30: when the segment between the center and the first node of one      *)
(* circuit has lost all its forward and return strands and every other     *)
(* strand is ok, the report has every node of that circuit 'conectado',    *)
(* and the graph has the patch into the circuit and the patch out of it.   *)
C30_FirstSegmentCutStaysConnected ==
    \A i \in DOMAIN DEFAULT_RING_ORDER :
        LET c    == DEFAULT_RING_ORDER[i]
            prev == IF i = 1 THEN Len(DEFAULT_RING_ORDER) ELSE i - 1
        IN  (ret.op = "get_network_status" /\ OnlyCut(find_segment(first_segment(c)))) =>
                /\ \A ct \in Range(DEFAULT_CIRCUITOS[c]) :
                      ret.value.ct_connectivity[ct] = "conectado"
                /\ RingPatch(prev) \in DG_edge_set(DG_cache[1])
                /\ RingPatch(i) \in DG_edge_set(DG_cache[1])

(* C30 witness: a report made with the first circuit of the ring order cut *)
(* off from the center, so that the way in is the wrap-around patch        *)
C30_Witness ==
    /\ ret.op = "get_network_status"
    /\ OnlyCut(find_segment(first_segment(DEFAULT_RING_ORDER[1])))
    /\ ret.value.ct_connectivity["CT21"] = "conectado"
    /\ RingPatch(Len(DEFAULT_RING_ORDER)) \in DG_edge_set(DG_cache[1])

====
